---- MODULE Spec2Model ----
(***************************************************************************)
(* Post-processing transforms of the site: the CiTO citation pipeline      *)
(* (parse, merge, inject into HTML) and the front-matter metadata updater. *)
(* Text is modelled as sequences of one-character strings.                 *)
(***************************************************************************)
EXTENDS Integers, Sequences, FiniteSets, TLC

VARIABLES
    \* parse_citos_from_qmd
    content,        \* text of the QMD file
    matches,        \* groups found by CITATION_PATTERN still to be parsed
    all_citos,      \* accumulated mapping id -> set of properties
    groups_done,    \* groups already parsed, each with its parse_citation_group result
    ppc,            \* position in parse_citos_from_qmd
    \* process_cito_annotations: merge_citos, then sorted property lists
    cito_dicts,     \* the per-document mappings, in the order of the post files
    merged,         \* result of merge_citos
    citation_properties,   \* the registry: id -> sorted list of properties
    mpc,            \* position in process_cito_annotations
    \* the HTML CiTO injector
    html,           \* the HTML file: its refs container and bibliography entries
    inj_impl,       \* which injector ran last ("none" before the first run)
    inj_props,      \* citation_properties handed to the last run
    inj_wrote,      \* the last run wrote the file
    inj_new,        \* entries the last run appended an annotation to
    inj_repeat,     \* the last run repeated the one before (same injector, same registry)
    inj_prev_wrote, \* the run before the last wrote the file
    \* the metadata updater
    post,           \* the post file: its name and its front-matter lines
    metadata_yml,   \* the _metadata.yml beside the post (prerender)
    minted,         \* DOIs minted so far by the external service
    meta_run,       \* the last updater run: what it found and what it did
    \* the RSS feed
    rss,            \* the feed file: its channel and items
    rss_run,        \* the last CiTO injector run on the feed
    doi_docs,       \* the QMD files handed to the DOI injector: title and doi
    doi_run,        \* the last DOI injector run on the feed
    \* snake_case to camelCase
    snake_names,    \* two property names
    camel_names,    \* their conversion (and which function made it)
    \* batch operations over a list of files
    batch,          \* the list, the position of the loop and what happened so far
    \* the ROR / Scholia affiliation injector
    ror_page,       \* the HTML page: its paragraphs and the links appended to them
    ror_affs,       \* the affiliation definitions loaded for the post, in order
    ror_run,        \* the last run of the affiliation injector
    \* the author link injector
    author_page,    \* the HTML page: its author elements and their links
    author_meta,    \* the author metadata extracted for the post, in order
    author_run,     \* the last run of the author link injector
    \* the talk map
    talk_files,     \* the talk files, in glob order
    talk_cache,     \* the geocache in memory: location -> entry
    talk_run,       \* the run of talkmap: position, calls, sleeps, cache file
    \* the JSON feed
    json_out,       \* the JSON feed file
    json_run,       \* the last conversion and the feed step it belongs to
    \* the citation registry
    registry,       \* CitationRegistry.citations: cite_id -> set of properties
    reg_supplied,   \* cite_id -> every property name supplied for it so far
    reg_calls       \* the number of calls made on the registry

parseVars == <<content, matches, all_citos, groups_done, ppc>>
mergeVars == <<cito_dicts, merged, citation_properties, mpc>>
htmlVars == <<html, inj_impl, inj_props, inj_wrote, inj_new, inj_repeat,
              inj_prev_wrote>>

metaVars == <<post, metadata_yml, minted, meta_run>>

rssVars == <<rss, rss_run, doi_docs, doi_run>>

camelVars == <<snake_names, camel_names>>

batchVars == <<batch>>

rorVars == <<ror_page, ror_affs, ror_run>>

authorVars == <<author_page, author_meta, author_run>>

talkVars == <<talk_files, talk_cache, talk_run>>

jsonVars == <<json_out, json_run>>

registryVars == <<registry, reg_supplied, reg_calls>>

vars == <<parseVars, mergeVars, htmlVars, metaVars, rssVars, camelVars, batchVars, rorVars, authorVars, talkVars, jsonVars, registryVars>>

\* what the actions of one component leave alone
notParse == <<mergeVars, htmlVars, metaVars, rssVars, camelVars, batchVars, rorVars, authorVars, talkVars, jsonVars, registryVars>>
notMerge == <<parseVars, htmlVars, metaVars, rssVars, camelVars, batchVars, rorVars, authorVars, talkVars, jsonVars, registryVars>>
notHtml == <<parseVars, mergeVars, metaVars, rssVars, camelVars, batchVars, rorVars, authorVars, talkVars, jsonVars, registryVars>>
notMeta == <<parseVars, mergeVars, htmlVars, rssVars, camelVars, batchVars, rorVars, authorVars, talkVars, jsonVars, registryVars>>
notCamel == <<parseVars, mergeVars, htmlVars, metaVars, rssVars, batchVars, rorVars, authorVars, talkVars, jsonVars, registryVars>>
notRss == <<parseVars, mergeVars, htmlVars, metaVars, camelVars, batchVars, rorVars, authorVars, talkVars, jsonVars, registryVars>>
notBatch == <<parseVars, mergeVars, htmlVars, metaVars, rssVars, camelVars, rorVars, authorVars, talkVars, jsonVars, registryVars>>
notRor == <<parseVars, mergeVars, htmlVars, metaVars, rssVars, camelVars, batchVars, authorVars, talkVars, jsonVars, registryVars>>
notAuthor == <<parseVars, mergeVars, htmlVars, metaVars, rssVars, camelVars, batchVars, rorVars, talkVars, jsonVars, registryVars>>
notTalk == <<parseVars, mergeVars, htmlVars, metaVars, rssVars, camelVars, batchVars, rorVars, authorVars, jsonVars, registryVars>>
notJson == <<parseVars, mergeVars, htmlVars, metaVars, rssVars, camelVars, batchVars, rorVars, authorVars, talkVars, registryVars>>
notRssJson == <<parseVars, mergeVars, htmlVars, metaVars, camelVars, batchVars, rorVars, authorVars, talkVars, registryVars>>
notRegistry == <<parseVars, mergeVars, htmlVars, metaVars, rssVars, camelVars, batchVars, rorVars, authorVars, talkVars, jsonVars>>

(***************************************************************************)
(* Bounds                                                                  *)
(***************************************************************************)
MaxGroupLen == 5     \* longest citation group enumerated character by character
MaxDocs == 3         \* most per-document mappings handed to the merger
MaxEntries == 2      \* most bibliography entries of an HTML document
MaxMint == 2         \* most DOIs the minting service is asked for

(***************************************************************************)
(* Strings                                                                 *)
(***************************************************************************)
\* str.strip() (the only whitespace of the alphabet is the blank)
RECURSIVE LStrip(_)
LStrip(s) == IF s # <<>> /\ Head(s) = " " THEN LStrip(Tail(s)) ELSE s

RECURSIVE RStrip(_)
RStrip(s) ==
    IF s # <<>> /\ s[Len(s)] = " " THEN RStrip(SubSeq(s, 1, Len(s) - 1)) ELSE s

Strip(s) == RStrip(LStrip(s))

\* index of the first occurrence of character c in s at or after i, 0 if none
RECURSIVE IndexFrom(_, _, _)
IndexFrom(s, c, i) ==
    IF i > Len(s) THEN 0
    ELSE IF s[i] = c THEN i
    ELSE IndexFrom(s, c, i + 1)

\* str.split(sep): every piece between separators, empty pieces included
RECURSIVE Split(_, _)
Split(s, sep) ==
    LET k == IndexFrom(s, sep, 1)
    IN  IF k = 0 THEN <<s>>
        ELSE <<SubSeq(s, 1, k - 1)>> \o Split(SubSeq(s, k + 1, Len(s)), sep)

\* str.split(sep, 1): at most one split, at the first separator
SplitOnce(s, sep) ==
    LET k == IndexFrom(s, sep, 1)
    IN  IF k = 0 THEN <<s>>
        ELSE <<SubSeq(s, 1, k - 1), SubSeq(s, k + 1, Len(s))>>

(***************************************************************************)
(* Citation parser                                                         *)
(***************************************************************************)
DEFAULT_CITO_PROPERTY == <<"c", "i", "t", "a", "t", "i", "o", "n">>

\* re.findall(r"\[@([^\]]+)\]", text): scanning from position i, the captured
\* groups of the non-overlapping matches, left to right
RECURSIVE FindAllFrom(_, _)
FindAllFrom(text, i) ==
    IF i + 1 > Len(text) THEN <<>>
    ELSE IF text[i] = "[" /\ text[i + 1] = "@"
         THEN LET close == IndexFrom(text, "]", i + 2)
              IN  IF close > i + 2
                  THEN <<SubSeq(text, i + 2, close - 1)>>
                           \o FindAllFrom(text, close + 1)
                  ELSE FindAllFrom(text, i + 1)
         ELSE FindAllFrom(text, i + 1)

CITATION_PATTERN_findall(text) == FindAllFrom(text, 1)

\* parse_single_citation without the default property: the entry's text is
\* returned with an empty property
parse_single_citation_NoDefault(citation) ==
    LET c1 == Strip(citation)
        c2 == IF c1 # <<>> /\ Head(c1) = "@" THEN Strip(Tail(c1)) ELSE c1
        parts == SplitOnce(c2, ":")
    IN  IF Len(parts) = 2
        THEN <<Strip(parts[1]), Strip(parts[2])>>
        ELSE <<<<>>, Strip(parts[1])>>

\* index of the last occurrence of character c in s, 0 if none
RECURSIVE LastIndex(_, _, _)
LastIndex(s, c, i) ==
    IF i = 0 THEN 0
    ELSE IF s[i] = c THEN i
    ELSE LastIndex(s, c, i - 1)

\* parse_single_citation splitting at the last colon (rsplit)
parse_single_citation_LastColon(citation) ==
    LET c1 == Strip(citation)
        c2 == IF c1 # <<>> /\ Head(c1) = "@" THEN Strip(Tail(c1)) ELSE c1
        k == LastIndex(c2, ":", Len(c2))
    IN  IF k # 0
        THEN <<Strip(SubSeq(c2, 1, k - 1)), Strip(SubSeq(c2, k + 1, Len(c2)))>>
        ELSE <<DEFAULT_CITO_PROPERTY, Strip(c2)>>

\* parse_single_citation: <<property, citation id>>
parse_single_citation(citation) ==
    LET c1 == Strip(citation)
        c2 == IF c1 # <<>> /\ Head(c1) = "@" THEN Strip(Tail(c1)) ELSE c1
        parts == SplitOnce(c2, ":")
    IN  IF Len(parts) = 2
        THEN <<Strip(parts[1]), Strip(parts[2])>>
        ELSE <<DEFAULT_CITO_PROPERTY, Strip(parts[1])>>

\* dict[cite_id].add / .update on a defaultdict(set)
DictUpdate(d, cite_id, props) ==
    [k \in DOMAIN d \cup {cite_id} |->
        IF k = cite_id
        THEN (IF k \in DOMAIN d THEN d[k] ELSE {}) \cup props
        ELSE d[k]]

EmptyDict == [k \in {} |-> {}]

\* the loop of parse_citation_group over the stripped entries
RECURSIVE ParseEntries(_, _)
ParseEntries(citations, citos) ==
    IF citations = <<>> THEN citos
    ELSE LET citation == Head(citations)
         IN  IF citation = <<>>
             THEN ParseEntries(Tail(citations), citos)
             ELSE LET pc == parse_single_citation(citation)
                  IN  ParseEntries(Tail(citations),
                                   DictUpdate(citos, pc[2], {pc[1]}))

parse_citation_group(citation_group) ==
    LET pieces == Split(citation_group, ";")
        citations == [i \in 1..Len(pieces) |-> Strip(pieces[i])]
    IN  ParseEntries(citations, EmptyDict)

\* for cite_id, props in citation_dict.items(): all_citos[cite_id].update(props)
RECURSIVE MergeInto(_, _)
MergeInto(acc, d) ==
    IF DOMAIN d = {} THEN acc
    ELSE LET k == CHOOSE x \in DOMAIN d : TRUE
         IN  MergeInto(DictUpdate(acc, k, d[k]),
                       [x \in DOMAIN d \ {k} |-> d[x]])

(***************************************************************************)
(* parse_citos_from_qmd as a state machine                                 *)
(***************************************************************************)
GroupAlphabet == {"@", ":", ";", " ", "a", "b"}

RECURSIVE StringsUpTo(_, _)
StringsUpTo(alphabet, n) ==
    IF n = 0 THEN {<<>>}
    ELSE LET shorter == StringsUpTo(alphabet, n - 1)
         IN  shorter \cup {<<c>> \o s : c \in alphabet,
                                        s \in {t \in shorter : Len(t) = n - 1}}

\* the group written as a bracketed citation of the document
Bracketed(group) == <<"[", "@">> \o group \o <<"]">>

supports == <<"s", "u", "p", "p", "o", "r", "t", "s">>
cites == <<"c", "i", "t", "e", "s">>
smith2020 == <<"s", "m", "i", "t", "h", "2", "0", "2", "0">>
jones2021 == <<"j", "o", "n", "e", "s", "2", "0", "2", "1">>

\* [@supports:smith2020; @cites:jones2021]
ExampleDoc ==
    <<"[", "@">> \o supports \o <<":">> \o smith2020 \o <<";", " ", "@">>
        \o cites \o <<":">> \o jones2021 \o <<"]">>

\* prose around several groups, an empty bracket and an unclosed one
ProseDoc ==
    <<"x", " ">> \o Bracketed(<<"a">>) \o <<" ", "[", "@", "]", " ">>
        \o Bracketed(<<"b", ":", "a", ";", "a">>) \o <<"[", "@", "b">>

QmdContents ==
    {Bracketed(g) : g \in StringsUpTo(GroupAlphabet, MaxGroupLen)}
        \cup {ExampleDoc, ProseDoc}

NoRun ==
    [impl |-> "none", generate_doi |-> FALSE, had_date |-> FALSE,
     had_doi |-> FALSE, date_before |-> "none", wrote |-> FALSE,
     changed |-> FALSE]

\* the metadata updater at rest
IdleMeta ==
    /\ post = [name |-> <<>>, fm |-> FALSE, lines |-> <<>>]
    /\ metadata_yml = [kind |-> "empty", lines |-> <<>>]
    /\ minted = 0
    /\ meta_run = NoRun

\* the HTML injector at rest
IdleHtml ==
    /\ html = [file |-> "missing", refs |-> "none", entries |-> <<>>]
    /\ inj_impl = "none"
    /\ inj_props = EmptyDict
    /\ inj_wrote = FALSE
    /\ inj_new = {}
    /\ inj_repeat = FALSE
    /\ inj_prev_wrote = FALSE

\* the merger at rest, for the specifications of the other components
IdleMerge ==
    /\ cito_dicts = <<>>
    /\ merged = EmptyDict
    /\ citation_properties = EmptyDict
    /\ mpc = "idle"

IdleParse ==
    /\ content = <<>>
    /\ matches = <<>>
    /\ all_citos = EmptyDict
    /\ groups_done = <<>>
    /\ ppc = "idle"

\* the RSS feed and its injectors at rest
IdleRss ==
    /\ rss = [file |-> "missing", channel |-> FALSE, items |-> <<>>]
    /\ rss_run = [impl |-> "none", props |-> EmptyDict, wrote |-> FALSE,
                  new |-> {}, repeat |-> FALSE, prev_wrote |-> FALSE]
    /\ doi_docs = <<>>
    /\ doi_run = [impl |-> "none", wrote |-> FALSE, repeat |-> FALSE,
                  prev_wrote |-> FALSE]

\* the name converter at rest
NotConverted == [impl |-> "none", camel |-> <<>>]

IdleCamel ==
    /\ snake_names = <<>>
    /\ camel_names = NotConverted

\* no batch operation under way
IdleBatch ==
    batch = [impl |-> "none", files |-> <<>>, pos |-> 0, processed |-> {},
             skipped |-> {}, status |-> "idle"]

\* the affiliation injector at rest
IdleRor ==
    /\ ror_page = [file |-> "missing", paras |-> <<>>]
    /\ ror_affs = <<>>
    /\ ror_run = [impl |-> "none", count |-> 0, runs |-> 0, repeat |-> FALSE]

\* the author link injector at rest
IdleAuthor ==
    /\ author_page = [file |-> "missing", elems |-> <<>>]
    /\ author_meta = <<>>
    /\ author_run = [impl |-> "none", count |-> 0, runs |-> 0, wrote |-> FALSE]

\* the talk map at rest
IdleTalk ==
    /\ talk_files = <<>>
    /\ talk_cache = [l \in {} |-> "old"]
    /\ talk_run = [impl |-> "none", phase |-> "none", dir |-> FALSE, pos |-> 1,
                   events |-> <<>>, located |-> 0, outcome |-> "none",
                   file |-> [l \in {} |-> "old"], loaded |-> {}, found |-> {},
                   reads |-> 0, writes |-> 0]

\* the JSON feed converter at rest
IdleJson ==
    /\ json_out = [file |-> "missing", version |-> "", title |-> <<>>, items |-> <<>>]
    /\ json_run = [impl |-> "none", raised |-> FALSE, wrote |-> FALSE,
                   props |-> EmptyDict, injected |-> {}, fresh |-> FALSE,
                   pipe |-> "none", pc |-> "none"]

\* the citation registry at rest
IdleRegistry ==
    /\ registry = EmptyDict
    /\ reg_supplied = EmptyDict
    /\ reg_calls = 0

\* every component but those of C at rest
IdleAllBut(C) ==
    /\ "parse" \notin C => IdleParse
    /\ "merge" \notin C => IdleMerge
    /\ "html" \notin C => IdleHtml
    /\ "meta" \notin C => IdleMeta
    /\ "rss" \notin C => IdleRss
    /\ "camel" \notin C => IdleCamel
    /\ "batch" \notin C => IdleBatch
    /\ "ror" \notin C => IdleRor
    /\ "author" \notin C => IdleAuthor
    /\ "talk" \notin C => IdleTalk
    /\ "json" \notin C => IdleJson
    /\ "registry" \notin C => IdleRegistry

InitParse ==
    /\ content \in QmdContents
    /\ matches = <<>>
    /\ all_citos = EmptyDict
    /\ groups_done = <<>>
    /\ ppc = "start"
    /\ IdleAllBut({"parse"})

\* the file does not exist or cannot be read: {} is returned
QmdUnreadable ==
    /\ ppc = "start"
    /\ ppc' = "returned"
    /\ UNCHANGED <<content, matches, all_citos, groups_done>>
    /\ UNCHANGED notParse

\* matches = CITATION_PATTERN.findall(content)
FindMatches ==
    /\ ppc = "start"
    /\ matches' = CITATION_PATTERN_findall(content)
    /\ ppc' = "loop"
    /\ UNCHANGED <<content, all_citos, groups_done>>
    /\ UNCHANGED notParse

\* one iteration of "for match in matches"
ParseMatch ==
    /\ ppc = "loop"
    /\ matches # <<>>
    /\ LET citation_dict == parse_citation_group(Head(matches))
       IN  /\ all_citos' = MergeInto(all_citos, citation_dict)
           /\ groups_done' = Append(groups_done,
                  [group |-> Head(matches), citos |-> citation_dict])
    /\ matches' = Tail(matches)
    /\ UNCHANGED <<content, ppc>>
    /\ UNCHANGED notParse

ReturnCitos ==
    /\ ppc = "loop"
    /\ matches = <<>>
    /\ ppc' = "returned"
    /\ UNCHANGED <<content, matches, all_citos, groups_done>>
    /\ UNCHANGED notParse

NextParse == QmdUnreadable \/ FindMatches \/ ParseMatch \/ ReturnCitos

SpecParse == InitParse /\ [][NextParse]_vars

(***************************************************************************)
(* Claims about the citation parser                                        *)
(***************************************************************************)
\* the entries of a group as the specification describes them: the pieces
\* between semicolons, blanks trimmed, empty pieces dropped, the leading @ removed
EntryBodies(group) ==
    LET pieces == Split(group, ";")
        kept == {i \in 1..Len(pieces) : Strip(pieces[i]) # <<>>}
    IN  {LET e == Strip(pieces[i])
         IN  IF Head(e) = "@" THEN Strip(Tail(e)) ELSE e : i \in kept}

HasColon(body) == IndexFrom(body, ":", 1) # 0

\* text before the first colon, or the default when there is no colon
EntryProperty(body) ==
    IF HasColon(body)
    THEN Strip(SubSeq(body, 1, IndexFrom(body, ":", 1) - 1))
    ELSE DEFAULT_CITO_PROPERTY

\* everything after the first colon, or the whole entry when there is no colon
EntryId(body) ==
    IF HasColon(body)
    THEN Strip(SubSeq(body, IndexFrom(body, ":", 1) + 1, Len(body)))
    ELSE body

ExampleCitos ==
    [k \in {smith2020, jones2021} |->
        IF k = smith2020 THEN {supports} ELSE {cites}]

\* C4: an entry without a colon gets the default property "citation" under
\* its id; an entry with an explicit property is recorded under that property,
\* and an id holds the default only if one of its entries has no colon (or
\* names "citation" itself).
C4_DefaultProperty ==
    \A i \in DOMAIN groups_done :
        LET d == groups_done[i].citos
            bodies == EntryBodies(groups_done[i].group)
        IN  /\ \A b \in bodies :
                /\ EntryId(b) \in DOMAIN d
                /\ ~HasColon(b) => DEFAULT_CITO_PROPERTY \in d[b]
                /\ HasColon(b) => EntryProperty(b) \in d[EntryId(b)]
            /\ \A x \in DOMAIN d :
                DEFAULT_CITO_PROPERTY \in d[x] =>
                    \E b \in bodies :
                        /\ EntryId(b) = x
                        /\ ~HasColon(b) \/ EntryProperty(b) = DEFAULT_CITO_PROPERTY

\* a parsed group with one entry without property and one with an explicit
\* property, under different ids
C4_Witness ==
    \E i \in DOMAIN groups_done :
        LET d == groups_done[i].citos
        IN  \E b1, b2 \in EntryBodies(groups_done[i].group) :
                /\ ~HasColon(b1) /\ HasColon(b2)
                /\ b1 # <<>> /\ EntryId(b2) # b1 /\ EntryId(b2) # <<>>
                /\ d[b1] = {DEFAULT_CITO_PROPERTY}
                /\ d[EntryId(b2)] = {EntryProperty(b2)}

\* C5: a group parses to the mapping id -> set of properties of its
\* non-empty semicolon-separated entries, each split at its first colon only;
\* the example document parses to {smith2020: {supports}, jones2021: {cites}}.
C5_GroupParse ==
    /\ \A i \in DOMAIN groups_done :
        LET d == groups_done[i].citos
            bodies == EntryBodies(groups_done[i].group)
        IN  /\ DOMAIN d = {EntryId(b) : b \in bodies}
            /\ \A x \in DOMAIN d :
                d[x] = {EntryProperty(b) : b \in {c \in bodies : EntryId(c) = x}}
    /\ (content = ExampleDoc /\ ppc = "returned" /\ groups_done # <<>>)
            => all_citos = ExampleCitos

\* the example document has been parsed, and so has an entry with two colons
C5_Witness ==
    /\ content = ExampleDoc
    /\ ppc = "returned"
    /\ all_citos = ExampleCitos

\* an entry with a second colon: the id keeps the later colon
C5_WitnessLaterColon ==
    \E i \in DOMAIN groups_done :
        \E b \in EntryBodies(groups_done[i].group) :
            /\ HasColon(b) /\ HasColon(EntryId(b))
            /\ EntryId(b) \in DOMAIN groups_done[i].citos

(***************************************************************************)
(* Citation merger and registry construction                               *)
(***************************************************************************)
\* merge_citos with plain assignment instead of update: the last document wins
RECURSIVE merge_citos_Overwrite(_)
merge_citos_Overwrite(dicts) ==
    IF dicts = <<>> THEN EmptyDict
    ELSE LET rest == merge_citos_Overwrite(SubSeq(dicts, 1, Len(dicts) - 1))
             last == dicts[Len(dicts)]
         IN  [k \in DOMAIN rest \cup DOMAIN last |->
                 IF k \in DOMAIN last THEN last[k] ELSE rest[k]]

\* merge_citos with setdefault instead of update: the first document wins
RECURSIVE merge_citos_FirstWins(_)
merge_citos_FirstWins(dicts) ==
    IF dicts = <<>> THEN EmptyDict
    ELSE LET rest == merge_citos_FirstWins(Tail(dicts))
             first == Head(dicts)
         IN  [k \in DOMAIN rest \cup DOMAIN first |->
                 IF k \in DOMAIN first THEN first[k] ELSE rest[k]]

\* the loop "for cito_dict in cito_dicts" of merge_citos, from an accumulator
RECURSIVE MergeLoop(_, _)
MergeLoop(acc, dicts) ==
    IF dicts = <<>> THEN acc
    ELSE MergeLoop(MergeInto(acc, Head(dicts)), Tail(dicts))

merge_citos(dicts) == MergeLoop(EmptyDict, dicts)

\* code points of the characters that occur in property names
AsciiOrder ==
    <<" ", "-", "0", "1", "2", ":", ";", "@", "A", "B", "C", "D", "E", "F",
      "S", "X", "Y", "Z", "[", "]", "_", "a", "b", "c", "d", "e", "f", "h",
      "i", "j", "m", "n", "o", "p", "r", "s", "t", "u", "v", "x", "y", "z">>

Ord(c) == CHOOSE i \in 1..Len(AsciiOrder) : AsciiOrder[i] = c

\* str.__lt__: lexicographic by code point, a proper prefix first
RECURSIVE StrLess(_, _)
StrLess(s, t) ==
    IF t = <<>> THEN FALSE
    ELSE IF s = <<>> THEN TRUE
    ELSE IF Head(s) = Head(t) THEN StrLess(Tail(s), Tail(t))
    ELSE Ord(Head(s)) < Ord(Head(t))

\* sorted(v) for a set of strings
RECURSIVE Sorted(_)
Sorted(S) ==
    IF S = {} THEN <<>>
    ELSE LET least == CHOOSE x \in S : \A y \in S \ {x} : StrLess(x, y)
         IN  <<least>> \o Sorted(S \ {least})

\* {k: sorted(v) for k, v in merged.items()}
SortedProperties(m) == [k \in DOMAIN m |-> Sorted(m[k])]

MergeIdA == <<"a">>
MergeIdB == <<"b">>
PropX == <<"x">>
PropY == <<"y">>
PropZ == <<"z">>

\* property sets a document may hold for an id
MergeValues(id) ==
    IF id = MergeIdA THEN {{PropX}, {PropY}, {PropX, PropY}}
    ELSE {{}, {PropZ}}

\* the per-document mappings: every id is absent or holds one of its sets
DocCitos ==
    UNION {{d \in [ids -> SUBSET {PropX, PropY, PropZ}] :
                \A k \in ids : d[k] \in MergeValues(k)} :
           ids \in SUBSET {MergeIdA, MergeIdB}}

RECURSIVE SeqsUpTo(_, _)
SeqsUpTo(S, n) ==
    IF n = 0 THEN {<<>>}
    ELSE LET shorter == SeqsUpTo(S, n - 1)
         IN  shorter \cup {Append(q, x) : q \in {t \in shorter : Len(t) = n - 1},
                                          x \in S}

InitMerge ==
    /\ cito_dicts \in SeqsUpTo(DocCitos, MaxDocs)
    /\ merged = EmptyDict
    /\ citation_properties = EmptyDict
    /\ mpc = "start"
    /\ IdleAllBut({"merge"})

\* merged = merge_citos(all_cito_dicts)
MergeCitos ==
    /\ mpc = "start"
    /\ merged' = merge_citos(cito_dicts)
    /\ mpc' = "merged"
    /\ UNCHANGED <<cito_dicts, citation_properties>>
    /\ UNCHANGED notMerge

\* citation_properties = {k: sorted(v) for k, v in merged.items()}
SortProperties ==
    /\ mpc = "merged"
    /\ citation_properties' = SortedProperties(merged)
    /\ mpc' = "returned"
    /\ UNCHANGED <<cito_dicts, merged>>
    /\ UNCHANGED notMerge

NextMerge == MergeCitos \/ SortProperties

SpecMerge == InitMerge /\ [][NextMerge]_vars

(***************************************************************************)
(* Claims about the citation merger                                        *)
(***************************************************************************)
DocsWith(k) == {i \in 1..Len(cito_dicts) : k \in DOMAIN cito_dicts[i]}

\* {a: {x}} and {a: {y}, b: {z}}
MergeExample ==
    <<[k \in {MergeIdA} |-> {PropX}],
      [k \in {MergeIdA, MergeIdB} |-> IF k = MergeIdA THEN {PropY} ELSE {PropZ}]>>

MergeExampleResult ==
    [k \in {MergeIdA, MergeIdB} |->
        IF k = MergeIdA THEN {PropX, PropY} ELSE {PropZ}]

\* C2: the merged mapping has the union of the input key sets as its keys
\* and, for each id, exactly the union of that id's property sets over the
\* inputs; merging {a:{x}} and {a:{y}, b:{z}} yields {a:{x,y}, b:{z}}.
C2_MergeIsUnion ==
    mpc \in {"merged", "returned"} =>
        /\ DOMAIN merged = UNION {DOMAIN cito_dicts[i] : i \in 1..Len(cito_dicts)}
        /\ \A k \in DOMAIN merged :
            merged[k] = UNION {cito_dicts[i][k] : i \in DocsWith(k)}
        /\ cito_dicts = MergeExample => merged = MergeExampleResult

\* the example of the specification has been merged
C2_Witness ==
    /\ mpc = "merged"
    /\ cito_dicts = MergeExample
    /\ merged = MergeExampleResult

ListPermutations(n) ==
    {f \in [1..n -> 1..n] : \A i, j \in 1..n : f[i] = f[j] => i = j}

\* C3: every permutation of the list of per-document mappings merges to the
\* same mapping, and so to the same registry of sorted property lists.
C3_MergeOrderIndependent ==
    mpc \in {"merged", "returned"} =>
        \A f \in ListPermutations(Len(cito_dicts)) :
            LET permuted == [i \in 1..Len(cito_dicts) |-> cito_dicts[f[i]]]
            IN  /\ merge_citos(permuted) = merged
                /\ mpc = "returned" =>
                       SortedProperties(merge_citos(permuted)) = citation_properties

\* three different documents that share an id with different properties
C3_Witness ==
    /\ mpc = "returned"
    /\ Len(cito_dicts) = 3
    /\ cito_dicts[1] # cito_dicts[2] /\ cito_dicts[2] # cito_dicts[3]
    /\ \A i \in 1..3 : MergeIdA \in DOMAIN cito_dicts[i]
    /\ cito_dicts[1][MergeIdA] # cito_dicts[3][MergeIdA]
    /\ citation_properties[MergeIdA] = <<PropX, PropY>>

(***************************************************************************)
(* HTML CiTO injector                                                      *)
(***************************************************************************)
REF_ID_PREFIX == <<"r", "e", "f", "-">>

LowerLetters ==
    <<"a", "b", "c", "d", "e", "f", "g", "h", "i", "j", "k", "l", "m",
      "n", "o", "p", "q", "r", "s", "t", "u", "v", "w", "x", "y", "z">>
UpperLetters ==
    <<"A", "B", "C", "D", "E", "F", "G", "H", "I", "J", "K", "L", "M",
      "N", "O", "P", "Q", "R", "S", "T", "U", "V", "W", "X", "Y", "Z">>

\* str.upper / str.lower on one character
Upper(c) ==
    IF \E i \in 1..26 : LowerLetters[i] = c
    THEN UpperLetters[CHOOSE i \in 1..26 : LowerLetters[i] = c]
    ELSE c
Lower(c) ==
    IF \E i \in 1..26 : UpperLetters[i] = c
    THEN LowerLetters[CHOOSE i \in 1..26 : UpperLetters[i] = c]
    ELSE c

\* str.capitalize(): first character upper case, the rest lower case
Capitalize(w) ==
    [i \in 1..Len(w) |-> IF i = 1 THEN Upper(w[i]) ELSE Lower(w[i])]

RECURSIVE Concat(_)
Concat(ss) == IF ss = <<>> THEN <<>> ELSE Head(ss) \o Concat(Tail(ss))

\* a conversion that keeps only the first word
snake_to_camel_case_FirstWord(snake_str) ==
    IF snake_str = <<>> THEN snake_str ELSE Split(snake_str, "_")[1]

\* snake_to_camel_case
snake_to_camel_case(snake_str) ==
    IF snake_str = <<>> THEN snake_str
    ELSE LET components == Split(snake_str, "_")
         IN  components[1]
                 \o Concat([i \in 1..(Len(components) - 1) |->
                               Capitalize(components[i + 1])])

\* " ".join(items)
RECURSIVE JoinBlank(_)
JoinBlank(items) ==
    IF items = <<>> THEN <<>>
    ELSE IF Len(items) = 1 THEN items[1]
    ELSE items[1] \o <<" ">> \o JoinBlank(Tail(items))

\* the text of the annotation span: " " + " ".join(f"[cito:{prop}]" ...)
AnnotationText(cito_props) ==
    <<" ">> \o JoinBlank([i \in 1..Len(cito_props) |->
        <<"[", "c", "i", "t", "o", ":">>
            \o snake_to_camel_case(cito_props[i]) \o <<"]">>])

StartsWith(s, prefix) ==
    Len(s) >= Len(prefix) /\ SubSeq(s, 1, Len(prefix)) = prefix

\* citation_properties.get(cite_id, [])
GetProps(props, cite_id) ==
    IF cite_id \in DOMAIN props THEN props[cite_id] ELSE <<>>

\* the loop body without the "already annotated" test
InjectEntry_NoSkip(entry, props) ==
    IF ~entry.csl THEN entry
    ELSE IF ~StartsWith(entry.id, REF_ID_PREFIX) THEN entry
    ELSE LET cite_id == SubSeq(entry.id, Len(REF_ID_PREFIX) + 1, Len(entry.id))
             cito_props == GetProps(props, cite_id)
         IN  IF cito_props = <<>> THEN entry
             ELSE [entry EXCEPT !.spans = Append(@, AnnotationText(cito_props))]

\* the loop body without the test for an empty property list
InjectEntry_EmptyProps(entry, props) ==
    IF ~entry.csl THEN entry
    ELSE IF ~StartsWith(entry.id, REF_ID_PREFIX) THEN entry
    ELSE LET cite_id == SubSeq(entry.id, Len(REF_ID_PREFIX) + 1, Len(entry.id))
             cito_props == GetProps(props, cite_id)
         IN  IF entry.spans # <<>> THEN entry
             ELSE [entry EXCEPT !.spans = Append(@, AnnotationText(cito_props))]

\* one bibliography entry through the loop body: the entry afterwards.
\* Only div.csl-entry elements are in bib_entries at all.
InjectEntry(entry, props) ==
    IF ~entry.csl THEN entry
    ELSE IF ~StartsWith(entry.id, REF_ID_PREFIX) THEN entry
    ELSE LET cite_id == SubSeq(entry.id, Len(REF_ID_PREFIX) + 1, Len(entry.id))
             cito_props == GetProps(props, cite_id)
         IN  IF cito_props = <<>> THEN entry
             ELSE IF entry.spans # <<>> THEN entry
             ELSE [entry EXCEPT !.spans = Append(@, AnnotationText(cito_props))]

InjectEntries(entries, props) ==
    [i \in 1..Len(entries) |-> InjectEntry(entries[i], props)]

\* InjectResult writing the parsed document back whether or not it changed
InjectResult_AlwaysWrites(doc, found, props) ==
    IF doc.file = "missing" \/ ~found THEN <<doc, FALSE, {}>>
    ELSE LET after == InjectEntries(doc.entries, props)
             annotated == {i \in 1..Len(after) : after[i] # doc.entries[i]}
         IN  <<[doc EXCEPT !.file = "saved", !.entries = after], TRUE, annotated>>

\* what a call does to the file, given whether the refs container was found:
\* <<file afterwards, written, entries annotated>>
InjectResult(doc, found, props) ==
    IF doc.file = "missing" \/ ~found THEN <<doc, FALSE, {}>>
    ELSE LET after == InjectEntries(doc.entries, props)
             annotated == {i \in 1..Len(after) : after[i] # doc.entries[i]}
             changed == annotated # {}
         IN  IF changed
             THEN <<[doc EXCEPT !.file = "saved", !.entries = after],
                    TRUE, annotated>>
             ELSE <<doc, FALSE, {}>>

cites_as_evidence ==
    <<"c", "i", "t", "e", "s", "_", "a", "s", "_",
      "e", "v", "i", "d", "e", "n", "c", "e">>

\* the registries handed to the injector: id a and id b, each absent or
\* mapped to a list of properties (an empty list included)
Registries ==
    UNION {{r \in [ids -> {<<>>, <<supports>>, <<cites_as_evidence, supports>>}] :
                /\ MergeIdA \in ids => r[MergeIdA] # <<supports>>
                /\ MergeIdB \in ids => r[MergeIdB] = <<supports>>} :
           ids \in SUBSET {MergeIdA, MergeIdB}}

EntryIds == {REF_ID_PREFIX \o MergeIdA, REF_ID_PREFIX \o MergeIdB, MergeIdA}

\* a bibliography entry: its id attribute, whether it is a div of class
\* csl-entry, and the texts of its span.cito elements (an entry inside the
\* container that is no div.csl-entry is enumerated without spans)
BibEntries ==
    {e \in [id : EntryIds, csl : BOOLEAN,
            spans : {<<>>, <<AnnotationText(<<cites>>)>>}] :
        ~e.csl => e.spans = <<>>}

\* refs: the element carrying id="refs" is a div, another element, or absent.
\* file: as rendered ("raw"), as serialised from the parsed tree by an
\* injector ("saved"), or absent ("missing"); a site starts out rendered.
HtmlDocs ==
    [file : {"raw"}, refs : {"div", "other", "none"},
     entries : SeqsUpTo(BibEntries, MaxEntries)]
        \cup {[file |-> "missing", refs |-> "none", entries |-> <<>>]}

InitHtml ==
    /\ html \in HtmlDocs
    /\ inj_impl = "none"
    /\ inj_props = EmptyDict
    /\ inj_wrote = FALSE
    /\ inj_new = {}
    /\ inj_repeat = FALSE
    /\ inj_prev_wrote = FALSE
    /\ IdleAllBut({"html"})

\* the bookkeeping of one call of injector impl with registry props
Injected(impl, props, result) ==
    /\ html' = result[1]
    /\ inj_wrote' = result[2]
    /\ inj_new' = result[3]
    /\ inj_impl' = impl
    /\ inj_props' = props
    /\ inj_repeat' = (inj_impl = impl /\ inj_props = props)
    /\ inj_prev_wrote' = inj_wrote
    /\ UNCHANGED notHtml

\* inject_cito_annotations_in_html: the container is soup.find("div", id="refs")
InjectLegacy ==
    \E props \in Registries :
        Injected("legacy", props, InjectResult(html, html.refs = "div", props))

\* CitoService.inject_into_html: the container is soup.find(id="refs")
InjectService ==
    \E props \in Registries :
        Injected("service", props,
                 InjectResult(html, html.refs \in {"div", "other"}, props))

NextHtml == InjectLegacy \/ InjectService

SpecHtml == InitHtml /\ [][NextHtml]_vars

(***************************************************************************)
(* Claims about the HTML injector                                          *)
(***************************************************************************)
\* C1: a run of an injector with the registry of its previous run leaves
\* the document as that run left it: no entry gets an annotation and the file
\* is not written.
C1_HtmlInjectIdempotent ==
    [][(inj_impl # "none" /\ inj_impl' = inj_impl /\ inj_props' = inj_props)
           => (html' = html /\ ~inj_wrote' /\ inj_new' = {})]_vars

\* a second run with the same registry, after a first run that annotated an
\* entry and wrote the file
C1_Witness ==
    /\ inj_repeat
    /\ inj_prev_wrote
    /\ ~inj_wrote
    /\ \E i \in 1..Len(html.entries) :
        /\ html.entries[i].id = REF_ID_PREFIX \o MergeIdA
        /\ MergeIdA \in DOMAIN inj_props
        /\ inj_props[MergeIdA] # <<>>
        /\ html.entries[i].spans = <<AnnotationText(inj_props[MergeIdA])>>

\* C10: a run writes the file exactly when it appended an annotation to at
\* least one entry; otherwise the file is left as it was.
C10_WriteIffAnnotated ==
    [][LET grew == \E i \in 1..Len(html.entries) :
                       Len(html'.entries[i].spans) > Len(html.entries[i].spans)
       IN  /\ inj_wrote' <=> grew
           /\ inj_wrote' <=> (inj_new' # {})
           /\ ~inj_wrote' => html' = html
           /\ inj_wrote' => html'.file = "saved"]_vars

\* a run that wrote the file for one new annotation while it skipped an
\* entry of the registry that was annotated already
C10_Witness ==
    /\ inj_wrote
    /\ inj_new # {}
    /\ \E i \in 1..Len(html.entries) :
        /\ i \notin inj_new
        /\ html.entries[i].csl
        /\ html.entries[i].id = REF_ID_PREFIX \o MergeIdB
        /\ MergeIdB \in DOMAIN inj_props
        /\ html.entries[i].spans = <<AnnotationText(<<cites>>)>>

\* a run that found nothing to annotate in a rendered file and left it alone
C10_WitnessNoWrite ==
    /\ inj_impl # "none"
    /\ ~inj_wrote
    /\ html.file = "raw"
    /\ html.refs = "div"
    /\ html.entries # <<>>

\* the injector of the last run found the file and its refs container
SawContainer(doc, impl) ==
    /\ doc.file # "missing"
    /\ impl = "legacy" => doc.refs = "div"
    /\ impl = "service" => doc.refs \in {"div", "other"}

\* C11: a run appends an annotation to a bibliography entry (a div.csl-entry
\* of the refs container it found) exactly when the entry's id starts with
\* "ref-", the rest of the id is a key of the registry with a non-empty
\* property list, and the entry has no annotation span yet; the annotation is
\* the text made from that list.
C11_AnnotatedIffEligible ==
    [][\A i \in 1..Len(html.entries) :
          LET e == html.entries[i]
              cite_id == SubSeq(e.id, Len(REF_ID_PREFIX) + 1, Len(e.id))
              eligible ==
                  /\ SawContainer(html, inj_impl') /\ e.csl
                  /\ StartsWith(e.id, REF_ID_PREFIX)
                  /\ cite_id \in DOMAIN inj_props'
                  /\ inj_props'[cite_id] # <<>>
                  /\ e.spans = <<>>
          IN  /\ (html'.entries[i] # e) <=> eligible
              /\ eligible =>
                    html'.entries[i] =
                        [e EXCEPT !.spans = <<AnnotationText(inj_props'[cite_id])>>]
      ]_vars

\* a run that annotated one entry and passed over another whose id is a key
\* of the registry mapped to the empty list
C11_Witness ==
    /\ inj_new # {}
    /\ MergeIdA \in DOMAIN inj_props
    /\ inj_props[MergeIdA] = <<>>
    /\ \E i \in 1..Len(html.entries) :
        /\ i \notin inj_new
        /\ html.entries[i].csl
        /\ html.entries[i].id = REF_ID_PREFIX \o MergeIdA
        /\ html.entries[i].spans = <<>>

(***************************************************************************)
(* RSS CiTO injector                                                       *)
(* A feed item is [title, guid, doi, desc]: title, guid and doi are the    *)
(* texts of the child elements of that name (none or one); desc is the     *)
(* description element: absent, empty, or HTML text with its refs          *)
(* container and bibliography entries.                                     *)
(***************************************************************************)
MaxItems == 2        \* most items of a feed
MaxItemEntries == 1  \* most bibliography entries in one item description

\* FeedService._snake_to_camel
FeedService_snake_to_camel(snake_str) ==
    LET parts == Split(snake_str, "_")
    IN  parts[1] \o Concat([i \in 1..(Len(parts) - 1) |-> Capitalize(parts[i + 1])])

\* the span text made from the property names as they are written
RssAnnotationText_Snake(cito_props) ==
    <<" ">> \o JoinBlank([i \in 1..Len(cito_props) |->
        <<"[", "c", "i", "t", "o", ":">> \o cito_props[i] \o <<"]">>])

\* inject_cito_annotations_in_rss: cito_span.string
RssAnnotationText(cito_props) ==
    <<" ">> \o JoinBlank([i \in 1..Len(cito_props) |->
        <<"[", "c", "i", "t", "o", ":">>
            \o snake_to_camel_case(cito_props[i]) \o <<"]">>])

\* FeedService.inject_cito_in_rss: cito_span.string
FeedAnnotationText(props) ==
    <<" ">> \o JoinBlank([i \in 1..Len(props) |->
        <<"[", "c", "i", "t", "o", ":">>
            \o FeedService_snake_to_camel(props[i]) \o <<"]">>])

\* the loop body of the feed injectors without the "already annotated" test
RssInjectEntry_NoSkip(entry, props, impl) ==
    IF ~entry.csl THEN entry
    ELSE IF ~StartsWith(entry.id, REF_ID_PREFIX) THEN entry
    ELSE LET cite_id == SubSeq(entry.id, Len(REF_ID_PREFIX) + 1, Len(entry.id))
             cito_props == GetProps(props, cite_id)
         IN  IF cito_props = <<>> THEN entry
             ELSE [entry EXCEPT !.spans =
                      Append(@, IF impl = "legacy"
                                THEN RssAnnotationText(cito_props)
                                ELSE FeedAnnotationText(cito_props))]

\* one bibliography entry of a description through the loop body of the
\* injector impl
RssInjectEntry(entry, props, impl) ==
    IF ~entry.csl THEN entry
    ELSE IF ~StartsWith(entry.id, REF_ID_PREFIX) THEN entry
    ELSE LET cite_id == SubSeq(entry.id, Len(REF_ID_PREFIX) + 1, Len(entry.id))
             cito_props == GetProps(props, cite_id)
         IN  IF cito_props = <<>> THEN entry
             ELSE IF entry.spans # <<>> THEN entry
             ELSE [entry EXCEPT !.spans =
                      Append(@, IF impl = "legacy"
                                THEN RssAnnotationText(cito_props)
                                ELSE FeedAnnotationText(cito_props))]

RssInjectEntries(entries, props, impl) ==
    [j \in 1..Len(entries) |-> RssInjectEntry(entries[j], props, impl)]

\* inject_cito_annotations_in_rss, one item: the description is replaced by
\* a CDATA section when an entry of this item was annotated
LegacyRssItem(item, props) ==
    IF item.desc.kind # "html" \/ item.desc.refs # "div" THEN item
    ELSE LET after == RssInjectEntries(item.desc.entries, props, "legacy")
         IN  IF after # item.desc.entries
             THEN [item EXCEPT !.desc.form = "cdata", !.desc.entries = after]
             ELSE item

\* the entries of the feed that differ between two versions of it
NewSpans(before, after) ==
    {ij \in (1..Len(before)) \X (1..(MaxItemEntries + 1)) :
        /\ ij[2] <= Len(before[ij[1]].desc.entries)
        /\ after[ij[1]].desc.entries[ij[2]] # before[ij[1]].desc.entries[ij[2]]}

\* inject_cito_annotations_in_rss: <<feed afterwards, written, entries annotated>>
LegacyRssResult(feed, props) ==
    IF feed.file = "missing" THEN <<feed, FALSE, {}>>
    ELSE IF ~feed.channel \/ feed.items = <<>> THEN <<feed, FALSE, {}>>
    ELSE LET after == [i \in 1..Len(feed.items) |->
                          LegacyRssItem(feed.items[i], props)]
             modified == after # feed.items
         IN  IF modified
             THEN <<[feed EXCEPT !.file = "lxml", !.items = after], TRUE,
                    NewSpans(feed.items, after)>>
             ELSE <<feed, FALSE, {}>>

\* FeedService.inject_cito_in_rss, the loop over the items from item i on:
\* changed is one flag for the whole feed, and a description is serialised
\* again whenever it has a refs container and the flag is set
RECURSIVE FeedItems(_, _, _, _)
FeedItems(items, props, i, changed) ==
    IF i > Len(items) THEN <<items, changed>>
    ELSE LET item == items[i]
         IN  IF item.desc.kind # "html" \/ item.desc.refs # "div"
             THEN FeedItems(items, props, i + 1, changed)
             ELSE LET after == RssInjectEntries(item.desc.entries, props, "service")
                      now == changed \/ after # item.desc.entries
                      item2 == IF now
                               THEN [item EXCEPT !.desc.form = "escaped",
                                                 !.desc.entries = after]
                               ELSE item
                  IN  FeedItems([items EXCEPT ![i] = item2], props, i + 1, now)

\* FeedService.inject_cito_in_rss: <<feed afterwards, written, entries annotated>>
FeedRssResult(feed, props) ==
    IF feed.file = "missing" THEN <<feed, FALSE, {}>>
    ELSE LET r == FeedItems(feed.items, props, 1, FALSE)
         IN  IF r[2]
             THEN <<[feed EXCEPT !.file = "bs4", !.items = r[1]], TRUE,
                    NewSpans(feed.items, r[1])>>
             ELSE <<feed, FALSE, {}>>

\* the title and link of an item as the site generator renders them
ItemTitle == <<"T">>
ItemLink == <<"l", "i", "n", "k">>

\* entries of a rendered description
RssBibEntries ==
    {e \in BibEntries : e.csl /\ e.id = REF_ID_PREFIX \o MergeIdA}

RssDescriptions ==
    {[kind |-> "absent", form |-> "raw", refs |-> "none", entries |-> <<>>],
     [kind |-> "empty", form |-> "raw", refs |-> "none", entries |-> <<>>],
     [kind |-> "html", form |-> "raw", refs |-> "none", entries |-> <<>>]}
    \cup [kind : {"html"}, form : {"raw"}, refs : {"div"},
          entries : SeqsUpTo(RssBibEntries, MaxItemEntries)]

RssItems ==
    [title : {<<ItemTitle>>}, guid : {<<ItemLink>>}, doi : {<<>>},
     desc : RssDescriptions]

\* a feed as rendered; a feed without a channel element is not an RSS feed
\* but parses all the same
RssFeeds ==
    [file : {"raw"}, channel : {TRUE}, items : SeqsUpTo(RssItems, MaxItems)]
        \cup [file : {"raw"}, channel : {FALSE}, items : SeqsUpTo(RssItems, 1)]
        \cup {[file |-> "missing", channel |-> FALSE, items |-> <<>>]}

RssRegistries == {r \in Registries : MergeIdB \notin DOMAIN r}

InitRss ==
    /\ rss \in RssFeeds
    /\ rss_run = [impl |-> "none", props |-> EmptyDict, wrote |-> FALSE,
                  new |-> {}, repeat |-> FALSE, prev_wrote |-> FALSE]
    /\ doi_docs = <<>>
    /\ doi_run = [impl |-> "none", wrote |-> FALSE, repeat |-> FALSE,
                  prev_wrote |-> FALSE]
    /\ IdleAllBut({"rss"})

\* the bookkeeping of one call of injector impl with registry props
RssInjected(impl, props, result) ==
    /\ rss' = result[1]
    /\ rss_run' = [impl |-> impl, props |-> props, wrote |-> result[2],
                   new |-> result[3],
                   repeat |-> (rss_run.impl = impl /\ rss_run.props = props),
                   prev_wrote |-> rss_run.wrote]
    /\ UNCHANGED <<doi_docs, doi_run>>
    /\ UNCHANGED notRss

\* inject_cito_annotations_in_rss
InjectRssLegacy ==
    \E props \in RssRegistries :
        RssInjected("legacy", props, LegacyRssResult(rss, props))

\* FeedService.inject_cito_in_rss
InjectRssService ==
    \E props \in RssRegistries :
        RssInjected("service", props, FeedRssResult(rss, props))

NextRss == InjectRssLegacy \/ InjectRssService

SpecRss == InitRss /\ [][NextRss]_vars

(***************************************************************************)
(* Claims about the RSS CiTO injector                                      *)
(***************************************************************************)
\* C12: a run of a feed injector with the registry of its previous run leaves
\* the feed as that run left it: no entry of any item description gets another
\* annotation and the feed is not written.
C12_RssInjectIdempotent ==
    [][(rss_run.impl # "none" /\ rss_run'.impl = rss_run.impl
            /\ rss_run'.props = rss_run.props)
           => (rss' = rss /\ ~rss_run'.wrote /\ rss_run'.new = {})]_vars

\* a second run with the same registry, after a first run that annotated an
\* entry of an item and wrote the feed
C12_Witness ==
    /\ rss_run.repeat
    /\ rss_run.prev_wrote
    /\ ~rss_run.wrote
    /\ MergeIdA \in DOMAIN rss_run.props
    /\ rss_run.props[MergeIdA] # <<>>
    /\ \E i \in 1..Len(rss.items) :
        /\ rss.items[i].desc.form # "raw"
        /\ \E j \in 1..Len(rss.items[i].desc.entries) :
            LET e == rss.items[i].desc.entries[j]
            IN  /\ e.id = REF_ID_PREFIX \o MergeIdA
                /\ Len(e.spans) = 1
                /\ e.spans[1] # AnnotationText(<<cites>>)

(***************************************************************************)
(* DOI injector of the feed                                                *)
(* A QMD file is [title, doi]: the values of the two front-matter keys     *)
(* (none or one text each).                                                *)
(***************************************************************************)
MaxQmd == 2          \* most QMD files handed to the DOI injector

DOI_URL_PREFIX ==
    <<"h", "t", "t", "p", "s", ":", "/", "/", "d", "o", "i", ".", "o", "r", "g", "/">>

\* doi.strip(), then the prefix unless the text starts with "http"
NormalizeDoi(doi) ==
    LET d == Strip(doi)
    IN  IF StartsWith(d, <<"h", "t", "t", "p">>) THEN d ELSE DOI_URL_PREFIX \o d

\* extract_doi_from_qmd: {} unless title and doi are both there and non-empty
ExtractDoi(qmd) ==
    IF qmd.title = <<>> \/ qmd.doi = <<>> THEN <<>>
    ELSE IF qmd.title[1] = <<>> \/ qmd.doi[1] = <<>> THEN <<>>
    ELSE <<[title |-> Strip(qmd.title[1]), doi |-> NormalizeDoi(qmd.doi[1])]>>

\* doi_mapping[key] = value
MapPut(m, key, value) ==
    [k \in DOMAIN m \cup {key} |-> IF k = key THEN value ELSE m[k]]

\* build_doi_mapping / FeedService._build_doi_mapping
RECURSIVE BuildLoop(_, _)
BuildLoop(doi_mapping, qmd_files) ==
    IF qmd_files = <<>> THEN doi_mapping
    ELSE LET result == ExtractDoi(Head(qmd_files))
         IN  BuildLoop(IF result = <<>> THEN doi_mapping
                       ELSE MapPut(doi_mapping, result[1].title, result[1].doi),
                       Tail(qmd_files))

build_doi_mapping(qmd_files) == BuildLoop(EmptyDict, qmd_files)

\* the legacy loop body appending a doi element whether or not there is one
DoiItem_NoCheck(item, doi_mapping) ==
    IF item.title = <<>> THEN item
    ELSE LET title == Strip(item.title[1])
         IN  IF title \notin DOMAIN doi_mapping THEN item
             ELSE [item EXCEPT !.doi = Append(@, doi_mapping[title])]

\* inject_doi_in_rss, one item: a doi child is appended unless there is one
DoiItem(item, doi_mapping) ==
    IF item.title = <<>> THEN item
    ELSE LET title == Strip(item.title[1])
         IN  IF title \notin DOMAIN doi_mapping THEN item
             ELSE IF item.doi # <<>> THEN item
             ELSE [item EXCEPT !.doi = Append(@, doi_mapping[title])]

\* FeedService.inject_doi_in_rss, one item: the DOI goes into the guid child
FeedDoiItem(item, doi_mapping) ==
    IF item.title = <<>> THEN item
    ELSE LET title == Strip(item.title[1])
         IN  IF title \notin DOMAIN doi_mapping THEN item
             ELSE LET doi == doi_mapping[title]
                  IN  IF item.guid # <<>> /\ Strip(item.guid[1]) = doi THEN item
                      ELSE [item EXCEPT !.guid = <<doi>>]

\* a DOI injector on the feed: <<feed afterwards, written>>
DoiResult(feed, qmd_files, impl) ==
    LET doi_mapping == build_doi_mapping(qmd_files)
    IN  IF feed.file = "missing" \/ doi_mapping = EmptyDict THEN <<feed, FALSE>>
        ELSE LET after == [i \in 1..Len(feed.items) |->
                              IF impl = "service"
                              THEN FeedDoiItem(feed.items[i], doi_mapping)
                              ELSE DoiItem(feed.items[i], doi_mapping)]
             IN  IF after # feed.items
                 THEN <<[feed EXCEPT !.file = "bs4", !.items = after], TRUE>>
                 ELSE <<feed, FALSE>>

BareDoi == <<"1", "0", ".", "5", "9", "3", "5", "0", "/", "x">>
OtherTitle == <<"V">>

\* the front matter of a post as far as the injector reads it
QmdFiles ==
    {[title |-> <<ItemTitle>>, doi |-> <<BareDoi \o <<" ">>>>],
     [title |-> <<<<" ">> \o ItemTitle>>, doi |-> <<DOI_URL_PREFIX \o BareDoi>>],
     [title |-> <<ItemTitle>>, doi |-> <<>>],
     [title |-> <<>>, doi |-> <<BareDoi>>]}

NoDescription ==
    [kind |-> "absent", form |-> "raw", refs |-> "none", entries |-> <<>>]

\* items as rendered: a title (or none), the link as guid (or none), no doi
DoiItems ==
    {[title |-> <<ItemTitle \o <<" ">>>>, guid |-> <<ItemLink>>, doi |-> <<>>,
      desc |-> NoDescription],
     [title |-> <<ItemTitle>>, guid |-> <<>>, doi |-> <<>>, desc |-> NoDescription],
     [title |-> <<OtherTitle>>, guid |-> <<ItemLink>>, doi |-> <<>>,
      desc |-> NoDescription],
     [title |-> <<>>, guid |-> <<ItemLink>>, doi |-> <<>>, desc |-> NoDescription]}

DoiFeeds ==
    [file : {"raw"}, channel : {TRUE}, items : SeqsUpTo(DoiItems, MaxItems)]
        \cup {[file |-> "missing", channel |-> FALSE, items |-> <<>>]}

InitDoi ==
    /\ rss \in DoiFeeds
    /\ rss_run = [impl |-> "none", props |-> EmptyDict, wrote |-> FALSE,
                  new |-> {}, repeat |-> FALSE, prev_wrote |-> FALSE]
    /\ doi_docs \in SeqsUpTo(QmdFiles, MaxQmd)
    /\ doi_run = [impl |-> "none", wrote |-> FALSE, repeat |-> FALSE,
                  prev_wrote |-> FALSE]
    /\ IdleAllBut({"rss"})

\* the bookkeeping of one call of the DOI injector impl
DoiInjected(impl, result) ==
    /\ rss' = result[1]
    /\ doi_run' = [impl |-> impl, wrote |-> result[2],
                   repeat |-> (doi_run.impl = impl),
                   prev_wrote |-> doi_run.wrote]
    /\ UNCHANGED <<rss_run, doi_docs>>
    /\ UNCHANGED notRss

\* inject_doi_in_rss.inject_doi_in_rss
InjectDoiLegacy == DoiInjected("legacy", DoiResult(rss, doi_docs, "legacy"))

\* utilities/inject_doi_in_rss.inject_doi_in_rss
InjectDoiUtilities == DoiInjected("utilities", DoiResult(rss, doi_docs, "utilities"))

\* FeedService.inject_doi_in_rss
InjectDoiService == DoiInjected("service", DoiResult(rss, doi_docs, "service"))

NextDoi == InjectDoiLegacy \/ InjectDoiUtilities \/ InjectDoiService

SpecDoi == InitDoi /\ [][NextDoi]_vars

(***************************************************************************)
(* Claims about the DOI injector                                           *)
(***************************************************************************)
\* the DOI of a document as a full https://doi.org/ URL
FullDoiUrl(doi) ==
    IF StartsWith(Strip(doi), DOI_URL_PREFIX) THEN Strip(doi)
    ELSE DOI_URL_PREFIX \o Strip(doi)

\* the DOI URLs of the documents with a DOI whose stripped title is title
DoisOfTitle(title) ==
    {FullDoiUrl(doi_docs[k].doi[1]) :
        k \in {n \in 1..Len(doi_docs) :
                 /\ doi_docs[n].title # <<>> /\ doi_docs[n].doi # <<>>
                 /\ Strip(doi_docs[n].title[1]) = title}}

\* C16: after a run of any DOI injector each item whose stripped title is the
\* stripped title of a document with a DOI has a doi child with that DOI as a
\* full https://doi.org/ URL, and every other item is as it was.
C16_DoiChildElement ==
    [][doi_run'.impl # "none" =>
        \A i \in 1..Len(rss.items) :
            LET item == rss.items[i]
                matched == /\ item.title # <<>>
                           /\ DoisOfTitle(Strip(item.title[1])) # {}
            IN  /\ matched =>
                    /\ Len(rss'.items[i].doi) = 1
                    /\ rss'.items[i].doi[1] \in DoisOfTitle(Strip(item.title[1]))
                /\ ~matched => rss'.items[i] = item]_vars

\* C17: a run of a DOI injector after a run of the same injector with the
\* same documents leaves the feed as it was and does not write it; no item
\* ever has more than one doi child or more than one guid child.
C17_DoiInjectIdempotent ==
    [][/\ (doi_run.impl # "none" /\ doi_run'.impl = doi_run.impl)
            => (rss' = rss /\ ~doi_run'.wrote)
       /\ \A i \in 1..Len(rss.items) :
            Len(rss'.items[i].doi) <= 1 /\ Len(rss'.items[i].guid) <= 1]_vars

\* a second run of the legacy injector after a first run that gave an item
\* its doi child and wrote the feed
C17_Witness ==
    /\ doi_run.impl = "legacy"
    /\ doi_run.repeat
    /\ doi_run.prev_wrote
    /\ ~doi_run.wrote
    /\ \E i \in 1..Len(rss.items) :
        rss.items[i].doi = <<DOI_URL_PREFIX \o BareDoi>>

\* the same for the service, which keeps the DOI in the guid child
C17_WitnessService ==
    /\ doi_run.impl = "service"
    /\ doi_run.repeat
    /\ doi_run.prev_wrote
    /\ ~doi_run.wrote
    /\ \E i \in 1..Len(rss.items) :
        rss.items[i].guid = <<DOI_URL_PREFIX \o BareDoi>>

(***************************************************************************)
(* postrender: the HTML page and the feed annotated from one registry      *)
(***************************************************************************)
\* the rendered page of a post: a refs container with its entries
PostHtmlDocs ==
    [file : {"raw"}, refs : {"div"}, entries : SeqsUpTo(RssBibEntries, 1)]

\* the rendered feed: every description holds the page with its refs container
PostFeeds ==
    {f \in RssFeeds :
        f.channel /\ \A i \in 1..Len(f.items) : f.items[i].desc.refs = "div"}

\* the state after process_cito_annotations returned citation_properties
InitPost ==
    /\ citation_properties \in RssRegistries
    /\ cito_dicts = <<>>
    /\ merged = EmptyDict
    /\ mpc = "returned"
    /\ html \in PostHtmlDocs
    /\ inj_impl = "none"
    /\ inj_props = EmptyDict
    /\ inj_wrote = FALSE
    /\ inj_new = {}
    /\ inj_repeat = FALSE
    /\ inj_prev_wrote = FALSE
    /\ rss \in PostFeeds
    /\ rss_run = [impl |-> "none", props |-> EmptyDict, wrote |-> FALSE,
                  new |-> {}, repeat |-> FALSE, prev_wrote |-> FALSE]
    /\ doi_docs = <<>>
    /\ doi_run = [impl |-> "none", wrote |-> FALSE, repeat |-> FALSE,
                  prev_wrote |-> FALSE]
    /\ IdleAllBut({"merge", "html", "rss"})

\* inject_html_annotations: inject_cito_annotations_in_html(html_file, citation_properties)
PostHtmlLegacy ==
    Injected("legacy", citation_properties,
             InjectResult(html, html.refs = "div", citation_properties))

\* CitoService.inject_into_html(html_path, citation_properties)
PostHtmlService ==
    Injected("service", citation_properties,
             InjectResult(html, html.refs \in {"div", "other"}, citation_properties))

\* process_rss_and_feeds: inject_cito_annotations_in_rss(RSS_FILE, citation_properties)
PostRssLegacy ==
    RssInjected("legacy", citation_properties,
                LegacyRssResult(rss, citation_properties))

\* FeedService.process_feeds: inject_cito_in_rss(rss_path, citation_properties)
PostRssService ==
    RssInjected("service", citation_properties,
                FeedRssResult(rss, citation_properties))

NextPost == PostHtmlLegacy \/ PostHtmlService \/ PostRssLegacy \/ PostRssService

SpecPost == InitPost /\ [][NextPost]_vars

\* C13: an entry annotated in the HTML page and an entry with the same id
\* annotated in an item description of the feed, both from the one registry of
\* the run, carry the same annotation text.
C13_HtmlRssInSync ==
    \A i \in inj_new : \A kj \in rss_run.new :
        LET h == html.entries[i]
            r == rss.items[kj[1]].desc.entries[kj[2]]
        IN  h.id = r.id => h.spans = r.spans

\* both outputs annotated for the same id, from a registry with a property
\* name that the conversion to camel case changes
C13_Witness ==
    /\ MergeIdA \in DOMAIN citation_properties
    /\ citation_properties[MergeIdA] = <<cites_as_evidence, supports>>
    /\ \E i \in inj_new : \E kj \in rss_run.new :
        /\ html.entries[i].id = REF_ID_PREFIX \o MergeIdA
        /\ rss.items[kj[1]].desc.entries[kj[2]].id = REF_ID_PREFIX \o MergeIdA
        /\ html.entries[i].spans
               = <<AnnotationText(<<cites_as_evidence, supports>>)>>

(***************************************************************************)
(* Any sequence of CiTO injection runs over a page and a feed              *)
(* Bibliography entries are siblings inside the refs container, as the     *)
(* citation processor renders them; each starts with at most one span.     *)
(***************************************************************************)
\* a rendered page with the entry of a, annotated or not, and the entry of
\* b, not annotated
AnnotateDocs ==
    {d \in HtmlDocs :
        /\ d.refs = "div"
        /\ Len(d.entries) = 2
        /\ \A i \in 1..2 : d.entries[i].csl
        /\ d.entries[1].id = REF_ID_PREFIX \o MergeIdA
        /\ d.entries[2].id = REF_ID_PREFIX \o MergeIdB
        /\ d.entries[2].spans = <<>>}

\* a rendered feed of one item with one entry, annotated or not
AnnotateFeeds ==
    {f \in PostFeeds :
        Len(f.items) = 1 /\ Len(f.items[1].desc.entries) = 1}

InitAnnotate ==
    /\ html \in AnnotateDocs
    /\ inj_impl = "none"
    /\ inj_props = EmptyDict
    /\ inj_wrote = FALSE
    /\ inj_new = {}
    /\ inj_repeat = FALSE
    /\ inj_prev_wrote = FALSE
    /\ rss \in AnnotateFeeds
    /\ rss_run = [impl |-> "none", props |-> EmptyDict, wrote |-> FALSE,
                  new |-> {}, repeat |-> FALSE, prev_wrote |-> FALSE]
    /\ doi_docs = <<>>
    /\ doi_run = [impl |-> "none", wrote |-> FALSE, repeat |-> FALSE,
                  prev_wrote |-> FALSE]
    /\ IdleAllBut({"html", "rss"})

NextAnnotate ==
    InjectLegacy \/ InjectService \/ InjectRssLegacy \/ InjectRssService

SpecAnnotate == InitAnnotate /\ [][NextAnnotate]_vars

\* C26: after any sequence of runs of the HTML and feed injectors, with any
\* registries and in any order, every bibliography entry of the page and of
\* every item description of the feed has at most one annotation span.
C26_AtMostOneSpan ==
    /\ \A i \in 1..Len(html.entries) : Len(html.entries[i].spans) <= 1
    /\ \A k \in 1..Len(rss.items) :
        \A j \in 1..Len(rss.items[k].desc.entries) :
            Len(rss.items[k].desc.entries[j].spans) <= 1

\* runs of both page injectors and of a feed injector with different
\* registries, over an entry that came annotated, an entry that a run
\* annotated and a feed entry that a run annotated
C26_Witness ==
    /\ inj_prev_wrote
    /\ inj_impl # "none"
    /\ ~inj_repeat
    /\ MergeIdA \in DOMAIN inj_props
    /\ inj_props[MergeIdA] = <<cites_as_evidence, supports>>
    /\ \E i, j \in 1..Len(html.entries) :
        /\ html.entries[i].id = REF_ID_PREFIX \o MergeIdA
        /\ html.entries[i].spans = <<AnnotationText(<<cites>>)>>
        /\ html.entries[j].id = REF_ID_PREFIX \o MergeIdB
        /\ html.entries[j].spans = <<AnnotationText(<<supports>>)>>
        /\ j \notin inj_new
    /\ rss_run.new # {}
    /\ rss_run.props # inj_props

(***************************************************************************)
(* snake_case to camelCase over the CiTO property names                    *)
(***************************************************************************)
\* the values of the CitoProperty enumeration
CitoVocabulary ==
    {
        <<"c", "i", "t", "a", "t", "i", "o", "n">>,
        <<"c", "i", "t", "e", "s">>,
        <<"c", "i", "t", "e", "s", "_", "a", "s", "_", "a", "u", "t", "h",
        "o", "r", "i", "t", "y">>,
        <<"c", "i", "t", "e", "s", "_", "a", "s", "_", "e", "v", "i", "d",
        "e", "n", "c", "e">>,
        <<"c", "i", "t", "e", "s", "_", "a", "s", "_", "m", "e", "t", "a",
        "d", "a", "t", "a", "_", "d", "o", "c", "u", "m", "e", "n", "t">>,
        <<"c", "i", "t", "e", "s", "_", "a", "s", "_", "r", "e", "c", "o",
        "m", "m", "e", "n", "d", "e", "d", "_", "r", "e", "a", "d", "i",
        "n", "g">>,
        <<"c", "i", "t", "e", "s", "_", "a", "s", "_", "r", "e", "l", "a",
        "t", "e", "d">>,
        <<"c", "i", "t", "e", "s", "_", "a", "s", "_", "s", "o", "u", "r",
        "c", "e", "_", "d", "o", "c", "u", "m", "e", "n", "t">>,
        <<"c", "i", "t", "e", "s", "_", "f", "o", "r", "_", "i", "n", "f",
        "o", "r", "m", "a", "t", "i", "o", "n">>,
        <<"u", "s", "e", "s", "_", "d", "a", "t", "a", "_", "f", "r", "o",
        "m">>,
        <<"u", "s", "e", "s", "_", "m", "e", "t", "h", "o", "d", "_", "i",
        "n">>,
        <<"a", "g", "r", "e", "e", "s", "_", "w", "i", "t", "h">>,
        <<"d", "i", "s", "a", "g", "r", "e", "e", "s", "_", "w", "i", "t",
        "h">>,
        <<"d", "i", "s", "p", "u", "t", "e", "s">>,
        <<"s", "u", "p", "p", "o", "r", "t", "s">>,
        <<"c", "o", "n", "f", "i", "r", "m", "s">>,
        <<"r", "e", "f", "u", "t", "e", "s">>,
        <<"e", "x", "t", "e", "n", "d", "s">>,
        <<"u", "p", "d", "a", "t", "e", "s">>,
        <<"r", "e", "v", "i", "e", "w", "s">>,
        <<"d", "i", "s", "c", "u", "s", "s", "e", "s">>,
        <<"o", "b", "t", "a", "i", "n", "s", "_", "b", "a", "c", "k", "g",
        "r", "o", "u", "n", "d", "_", "f", "r", "o", "m">>
    }

\* names outside the enumeration that an author can write as a property
OtherNames ==
    {<<"a", "_", "b">>, <<"a", "_", "_", "b">>, <<"a", "_", "B">>, <<>>}

\* CitoProperty.to_camel_case (self.value is the snake_case name)
CitoProperty_to_camel_case(value) ==
    LET parts == Split(value, "_")
    IN  parts[1] \o Concat([i \in 1..(Len(parts) - 1) |-> Capitalize(parts[i + 1])])

\* CitoService._snake_to_camel
CitoService_snake_to_camel(snake_str) ==
    LET parts == Split(snake_str, "_")
    IN  parts[1] \o Concat([i \in 1..(Len(parts) - 1) |-> Capitalize(parts[i + 1])])

InitCamel ==
    /\ snake_names \in (CitoVocabulary \cup OtherNames) \X (CitoVocabulary \cup OtherNames)
    /\ camel_names = NotConverted
    /\ IdleAllBut({"camel"})

\* snake_to_camel_case on both names
ConvertLegacy ==
    /\ camel_names.impl = "none"
    /\ camel_names' = [impl |-> "legacy",
                       camel |-> <<snake_to_camel_case(snake_names[1]),
                                   snake_to_camel_case(snake_names[2])>>]
    /\ UNCHANGED snake_names
    /\ UNCHANGED notCamel

\* CitoService._snake_to_camel on both names
ConvertService ==
    /\ camel_names.impl = "none"
    /\ camel_names' = [impl |-> "service",
                       camel |-> <<CitoService_snake_to_camel(snake_names[1]),
                                   CitoService_snake_to_camel(snake_names[2])>>]
    /\ UNCHANGED snake_names
    /\ UNCHANGED notCamel

\* CitoProperty.to_camel_case on two members of the enumeration
ConvertEnum ==
    /\ camel_names.impl = "none"
    /\ snake_names[1] \in CitoVocabulary
    /\ snake_names[2] \in CitoVocabulary
    /\ camel_names' = [impl |-> "enum",
                       camel |-> <<CitoProperty_to_camel_case(snake_names[1]),
                                   CitoProperty_to_camel_case(snake_names[2])>>]
    /\ UNCHANGED snake_names
    /\ UNCHANGED notCamel

NextCamel == ConvertLegacy \/ ConvertService \/ ConvertEnum

SpecCamel == InitCamel /\ [][NextCamel]_vars

citesAsEvidence ==
    <<"c", "i", "t", "e", "s", "A", "s", "E", "v", "i", "d", "e", "n", "c", "e">>

\* C14: over the names of the CiTO vocabulary the conversion is one-to-one,
\* two names with the same camelCase form are the same name, and
\* cites_as_evidence becomes citesAsEvidence.
C14_CamelCaseLossless ==
    (camel_names.impl # "none" /\ snake_names[1] \in CitoVocabulary
        /\ snake_names[2] \in CitoVocabulary)
    => /\ camel_names.camel[1] = camel_names.camel[2]
            => snake_names[1] = snake_names[2]
       /\ snake_names[1] = cites_as_evidence
            => camel_names.camel[1] = citesAsEvidence

\* two different names of the vocabulary that share their first two words,
\* converted
C14_Witness ==
    /\ camel_names.impl # "none"
    /\ snake_names[1] = cites_as_evidence
    /\ snake_names[2] \in CitoVocabulary
    /\ snake_names[2] # cites_as_evidence
    /\ StartsWith(snake_names[2], <<"c", "i", "t", "e", "s", "_", "a", "s", "_">>)
    /\ camel_names.camel[1] = citesAsEvidence
    /\ camel_names.camel[2] # citesAsEvidence

\* outside the vocabulary two different names can share one camelCase form
C14_WitnessOutside ==
    /\ camel_names.impl = "legacy"
    /\ snake_names[1] # snake_names[2]
    /\ camel_names.camel[1] = camel_names.camel[2]

(***************************************************************************)
(* Batch operations: one loop over a list of files                         *)
(* A file of the list is given by what processing it meets: "ok", or an    *)
(* error ("unreadable": read_text raises; "bad_yaml": yaml.safe_load       *)
(* raises; "no_html": the rendered page does not exist; "raises": an       *)
(* injector raises).                                                       *)
(***************************************************************************)
MaxBatch == 3        \* most files handed to a batch operation

MetaFileKinds == {"ok", "unreadable", "bad_yaml"}
HtmlFileKinds == {"ok", "no_html", "raises"}

InitBatch ==
    /\ \E impl \in {"update_all_posts", "MetadataService", "inject_html_annotations"} :
        \E files \in SeqsUpTo(IF impl = "inject_html_annotations"
                              THEN HtmlFileKinds ELSE MetaFileKinds, MaxBatch) :
            batch = [impl |-> impl, files |-> files, pos |-> 1, processed |-> {},
                     skipped |-> {}, status |-> "running"]
    /\ IdleAllBut({"batch"})

\* the loop has gone through the whole list
BatchReturn ==
    /\ batch.status = "running"
    /\ batch.pos > Len(batch.files)
    /\ batch' = [batch EXCEPT !.status = "returned"]
    /\ UNCHANGED notBatch

\* update_all_posts: update_yaml_header(path), nothing around the call
UpdateAllPostsStep ==
    /\ batch.status = "running"
    /\ batch.impl = "update_all_posts"
    /\ batch.pos <= Len(batch.files)
    /\ batch' = IF batch.files[batch.pos] = "ok"
                THEN [batch EXCEPT !.processed = @ \cup {batch.pos},
                                   !.pos = @ + 1]
                ELSE [batch EXCEPT !.status = "raised"]
    /\ UNCHANGED notBatch

\* MetadataService.update_all_posts: self.update_post_metadata(path, generate_doi),
\* nothing around the call
ServiceUpdateAllPostsStep ==
    /\ batch.status = "running"
    /\ batch.impl = "MetadataService"
    /\ batch.pos <= Len(batch.files)
    /\ batch' = IF batch.files[batch.pos] = "ok"
                THEN [batch EXCEPT !.processed = @ \cup {batch.pos},
                                   !.pos = @ + 1]
                ELSE [batch EXCEPT !.status = "raised"]
    /\ UNCHANGED notBatch

\* inject_html_annotations: a missing page is logged and skipped, the three
\* injectors run inside try/except Exception
InjectHtmlAnnotationsStep ==
    /\ batch.status = "running"
    /\ batch.impl = "inject_html_annotations"
    /\ batch.pos <= Len(batch.files)
    /\ batch' = IF batch.files[batch.pos] = "ok"
                THEN [batch EXCEPT !.processed = @ \cup {batch.pos},
                                   !.pos = @ + 1]
                ELSE [batch EXCEPT !.skipped = @ \cup {batch.pos},
                                   !.pos = @ + 1]
    /\ UNCHANGED notBatch

NextBatch ==
    \/ UpdateAllPostsStep
    \/ ServiceUpdateAllPostsStep
    \/ InjectHtmlAnnotationsStep
    \/ BatchReturn

SpecBatch == InitBatch /\ [][NextBatch]_vars

\* C15: when a batch operation has ended, every file of its list was either
\* processed or logged and skipped, and the operation did not end by an
\* exception.
C15_FilesIndependent ==
    batch.status \notin {"running", "idle"}
    => /\ batch.status = "returned"
       /\ \A i \in 1..Len(batch.files) :
            /\ batch.files[i] = "ok" => i \in batch.processed
            /\ batch.files[i] # "ok" => i \in batch.skipped

\* inject_html_annotations does go on after a file that raised
C15_HtmlGoesOn ==
    /\ batch.impl = "inject_html_annotations"
    /\ batch.status = "returned"
    /\ \E i \in batch.skipped : \E j \in batch.processed :
        i < j /\ batch.files[i] = "raises"

(***************************************************************************)
(* ROR / Scholia affiliation injector                                      *)
(* A paragraph is [aff, text, links]: whether one of its classes contains  *)
(* "affiliation", its own text, and the links appended to it (each after a *)
(* blank).  An affiliation definition is [name, ror, qid] with none or one *)
(* text for ror and qid.                                                   *)
(***************************************************************************)
MaxAffDefs == 2      \* most affiliation definitions of a post
MaxAffParas == 2     \* most paragraphs of a page
MaxRorRuns == 3      \* most runs of the affiliation injector on one page

RorOrg == <<"r", "o", "r", ".", "o", "r", "g">>
RorUrl ==
    <<"h", "t", "t", "p", "s", ":", "/", "/", "r", "o", "r", ".", "o",
    "r", "g", "/", "0", "2", "x">>
ScholiaOrganizationUrl ==
    <<"h", "t", "t", "p", "s", ":", "/", "/", "s", "c", "h", "o", "l",
    "i", "a", ".", "t", "o", "o", "l", "f", "o", "r", "g", "e", ".", "o",
    "r", "g", "/", "o", "r", "g", "a", "n", "i", "z", "a", "t", "i", "o",
    "n", "/">>
Qid == <<"Q", "1">>

\* sub in s
Contains(s, sub) ==
    \E i \in 1..(Len(s) - Len(sub) + 1) : SubSeq(s, i, i + Len(sub) - 1) = sub

\* str.lower()
LowerStr(s) == [i \in 1..Len(s) |-> Lower(s[i])]

\* aff_elem.get_text(): the text of the paragraph, then the blank before each
\* appended link (a link holds an image and no text)
GetText(p) == p.text \o [i \in 1..Len(p.links) |-> " "]

\* aff_elem.find("a", class_="uri", href=lambda h: h and "ror.org" in h)
ExistingRorLink(p) ==
    \E i \in 1..Len(p.links) :
        p.links[i].class = "uri" /\ Contains(p.links[i].href, RorOrg)

\* aff_dict.get(aff_text), then the first name equal to it ignoring case:
\* the definitions found (none or one)
FindAffiliationData(aff_text, aff_dict) ==
    LET exact == {i \in 1..Len(aff_dict) : aff_dict[i].name = aff_text}
        anycase == {i \in 1..Len(aff_dict) :
                       LowerStr(aff_dict[i].name) = LowerStr(aff_text)}
    IN  IF exact # {} THEN <<aff_dict[CHOOSE i \in exact : TRUE]>>
        ELSE IF anycase # {}
        THEN <<aff_dict[CHOOSE i \in anycase : \A j \in anycase : i <= j]>>
        ELSE <<>>

RorLink(ror_url, impl) == [class |-> "uri", href |-> ror_url, by |-> impl]
ScholiaLink(qid, impl) ==
    [class |-> "scholia-link", href |-> ScholiaOrganizationUrl \o qid, by |-> impl]

\* the links one paragraph is given by the loop body
NewLinks(p, aff_dict, impl) ==
    IF ~p.aff \/ ExistingRorLink(p) THEN <<>>
    ELSE LET aff_data == FindAffiliationData(Strip(GetText(p)), aff_dict)
         IN  IF aff_data = <<>> THEN <<>>
             ELSE (IF aff_data[1].ror # <<>>
                   THEN <<RorLink(aff_data[1].ror[1], impl)>> ELSE <<>>)
                  \o (IF aff_data[1].qid # <<>>
                      THEN <<ScholiaLink(aff_data[1].qid[1], impl)>> ELSE <<>>)

\* inject_ror_links / RorService._inject_links: <<paragraphs, enriched_count>>
RECURSIVE CountLinks(_, _, _)
CountLinks(paras, aff_dict, impl) ==
    IF paras = <<>> THEN 0
    ELSE Len(NewLinks(Head(paras), aff_dict, impl))
             + CountLinks(Tail(paras), aff_dict, impl)

inject_ror_links(paras, aff_dict, impl) ==
    <<[i \in 1..Len(paras) |->
          [paras[i] EXCEPT !.links = @ \o NewLinks(paras[i], aff_dict, impl)]],
      CountLinks(paras, aff_dict, impl)>>

\* inject_ror_in_html / RorService.inject_into_html: <<page, enriched_count>>
inject_ror_in_html(page, aff_dict, impl) ==
    IF page.file = "missing" \/ aff_dict = <<>> THEN <<page, 0>>
    ELSE LET r == inject_ror_links(page.paras, aff_dict, impl)
         IN  IF r[2] > 0
             THEN <<[page EXCEPT !.file = "saved", !.paras = r[1]], r[2]>>
             ELSE <<page, 0>>

AffName == <<"U", "n", "i">>
AffNameOther == <<"L", "a", "b">>

\* the definitions kept by _parse_affiliation_defs_from_doc: a name and at
\* least one of ror and qid
AffDefs ==
    {d \in [name : {AffName, AffNameOther}, ror : {<<>>, <<RorUrl>>},
            qid : {<<>>, <<Qid>>}] :
        /\ d.ror # <<>> \/ d.qid # <<>>
        /\ d.name = AffNameOther => (d.ror # <<>> /\ d.qid = <<>>)}

\* the loaded dictionary: its items in insertion order, one per name
AffDicts ==
    {a \in SeqsUpTo(AffDefs, MaxAffDefs) :
        \A i, j \in 1..Len(a) : i < j => a[i].name # a[j].name}

\* the paragraphs of a rendered page: no links yet
AffParas ==
    [aff : {TRUE}, text : {AffName, <<"u", "n", "i", " ">>, AffNameOther},
     links : {<<>>}]
        \cup {[aff |-> FALSE, text |-> AffName, links |-> <<>>]}

RorPages ==
    [file : {"raw"}, paras : SeqsUpTo(AffParas, MaxAffParas)]
        \cup {[file |-> "missing", paras |-> <<>>]}

InitRor ==
    /\ ror_page \in RorPages
    /\ ror_affs \in AffDicts
    /\ ror_run = [impl |-> "none", count |-> 0, runs |-> 0, repeat |-> FALSE]
    /\ IdleAllBut({"ror"})

\* the bookkeeping of one run of the injector impl
RorInjected(impl, result) ==
    /\ ror_run.runs < MaxRorRuns
    /\ ror_page' = result[1]
    /\ ror_run' = [impl |-> impl, count |-> result[2], runs |-> ror_run.runs + 1,
                   repeat |-> (ror_run.impl = impl)]
    /\ UNCHANGED ror_affs
    /\ UNCHANGED notRor

\* inject_ror_in_html(qmd_path, html_path)
InjectRorLegacy ==
    RorInjected("legacy", inject_ror_in_html(ror_page, ror_affs, "legacy"))

\* RorService.inject_into_html(qmd_path, html_path)
InjectRorService ==
    RorInjected("service", inject_ror_in_html(ror_page, ror_affs, "service"))

NextRor == InjectRorLegacy \/ InjectRorService

SpecRor == InitRor /\ [][NextRor]_vars

\* the links of a paragraph of one class
LinksOfClass(p, class) == {i \in 1..Len(p.links) : p.links[i].class = class}

\* C18: a run of the affiliation injector after a run of the same injector
\* leaves the page as it was, and no paragraph ever has more than one ROR
\* link or more than one Scholia link.
C18_RorInjectIdempotent ==
    [][/\ (ror_run.impl # "none" /\ ror_run'.impl = ror_run.impl)
            => ror_page' = ror_page
       /\ \A i \in 1..Len(ror_page.paras) :
            /\ Cardinality(LinksOfClass(ror_page'.paras[i], "uri")) <= 1
            /\ Cardinality(LinksOfClass(ror_page'.paras[i], "scholia-link")) <= 1
      ]_vars

\* with a ROR in the definition the second run does leave the page alone
C18_RorLinkOnce ==
    /\ ror_run.repeat
    /\ ror_run.count = 0
    /\ \E i \in 1..Len(ror_page.paras) :
        /\ Cardinality(LinksOfClass(ror_page.paras[i], "uri")) = 1
        /\ Cardinality(LinksOfClass(ror_page.paras[i], "scholia-link")) = 1

(***************************************************************************)
(* Author link injector (ORCID icon and Scholia link)                      *)
(* An author element is [text, links]; a link is [kind, classes, img,      *)
(* href, norm]: kind says whether the href holds orcid.org or              *)
(* scholia.toolforge.org, classes is the class list, img the image inside  *)
(* the link, href the identifier at the end of the URL, norm whether       *)
(* target, rel and title are set.  An author is [name, orcid, qid].        *)
(***************************************************************************)
MaxAuthorElems == 1  \* most author elements of a page
MaxAuthors == 1      \* most authors in the metadata of a post
MaxAuthorRuns == 3   \* most runs of the author link injector on one page

\* _remove_existing_orcid_icons: every img with "orcid" in src or alt goes
RemoveOrcidIcons(elem) ==
    [elem EXCEPT !.links =
        [i \in 1..Len(@) |->
            IF @[i].img = "orcid_svg" THEN [@[i] EXCEPT !.img = "none"] ELSE @[i]]]

\* inject_orcid_icon / AuthorService._inject_orcid_icon: the element afterwards
\* (the function returns True on every path)
inject_orcid_icon(orcid, author_elem) ==
    LET elem == RemoveOrcidIcons(author_elem)
        existing == {i \in 1..Len(elem.links) : elem.links[i].kind = "orcid"}
    IN  IF existing # {}
        THEN LET i == CHOOSE k \in existing : \A j \in existing : k <= j
             IN  [elem EXCEPT !.links[i] =
                     [kind |-> "orcid",
                      classes |-> Append(elem.links[i].classes, "orcid-link"),
                      img |-> "orcid_svg", href |-> orcid, norm |-> TRUE]]
        ELSE [elem EXCEPT !.links =
                 Append(@, [kind |-> "orcid", classes |-> <<"orcid-link">>,
                            img |-> "orcid_svg", href |-> orcid, norm |-> TRUE])]

HasScholiaLink(elem) ==
    \E i \in 1..Len(elem.links) : elem.links[i].kind = "scholia"

\* inject_scholia_link / AuthorService._inject_scholia_link: the element
\* afterwards; the function returns True exactly when it appended the link
inject_scholia_link(qid, author_elem) ==
    IF HasScholiaLink(author_elem) THEN author_elem
    ELSE [author_elem EXCEPT !.links =
             Append(@, [kind |-> "scholia", classes |-> <<"scholia-link">>,
                        img |-> "scholia_svg", href |-> qid, norm |-> TRUE])]

\* the two injections on one element for one author: <<element, enrichments>>
EnrichElem(elem, author) ==
    LET e1 == IF author.orcid # <<>>
              THEN inject_orcid_icon(author.orcid[1], elem) ELSE elem
        n1 == IF author.orcid # <<>> THEN 1 ELSE 0
        e2 == IF author.qid # <<>> THEN inject_scholia_link(author.qid[1], e1)
              ELSE e1
        n2 == IF author.qid # <<>> /\ ~HasScholiaLink(e1) THEN 1 ELSE 0
    IN  <<e2, n1 + n2>>

\* enrich_authors_in_html: for each author the first element whose text
\* holds the name, is held by the name, or is empty
RECURSIVE enrich_authors_in_html(_, _, _, _)
enrich_authors_in_html(elems, authors, k, count) ==
    IF k > Len(authors) THEN <<elems, count>>
    ELSE LET author_name == authors[k].name
             matching == {i \in 1..Len(elems) :
                            LET elem_text == Strip(elems[i].text)
                            IN  \/ Contains(elem_text, author_name)
                                \/ Contains(author_name, elem_text)
                                \/ elem_text = <<>>}
         IN  IF matching = {}
             THEN enrich_authors_in_html(elems, authors, k + 1, count)
             ELSE LET i == CHOOSE m \in matching : \A j \in matching : m <= j
                      named == IF Strip(elems[i].text) = <<>>
                               THEN [elems[i] EXCEPT !.text = author_name \o @]
                               ELSE elems[i]
                      r == EnrichElem(named, authors[k])
                  IN  enrich_authors_in_html([elems EXCEPT ![i] = r[1]], authors,
                                             k + 1, count + r[2])

\* AuthorService._inject_author_links: for each element the first author
\* whose name, in lower case, is in the text of the element
RECURSIVE ServiceInjectAuthorLinks(_, _, _, _)
ServiceInjectAuthorLinks(elems, authors, i, count) ==
    IF i > Len(elems) THEN <<elems, count>>
    ELSE LET author_text == LowerStr(Strip(elems[i].text))
             found == {k \in 1..Len(authors) :
                          Contains(author_text, LowerStr(authors[k].name))}
         IN  IF found = {}
             THEN ServiceInjectAuthorLinks(elems, authors, i + 1, count)
             ELSE LET k == CHOOSE m \in found : \A j \in found : m <= j
                      r == EnrichElem(elems[i], authors[k])
                  IN  ServiceInjectAuthorLinks([elems EXCEPT ![i] = r[1]], authors,
                                               i + 1, count + r[2])

\* inject_author_links / AuthorService.inject_into_html:
\* <<page afterwards, enriched_count>>; the page is written when the count
\* is positive
InjectAuthorResult(page, authors, impl) ==
    IF page.file = "missing" \/ authors = <<>> THEN <<page, 0>>
    ELSE IF impl = "legacy" /\ page.elems = <<>> THEN <<page, 0>>
    ELSE LET r == IF impl = "legacy"
                  THEN enrich_authors_in_html(page.elems, authors, 1, 0)
                  ELSE ServiceInjectAuthorLinks(page.elems, authors, 1, 0)
         IN  IF r[2] > 0
             THEN <<[page EXCEPT !.file = "saved", !.elems = r[1]], r[2]>>
             ELSE <<page, 0>>

AuthorName == <<"A", "d", "a">>
AuthorNameOther == <<"B", "o", "b">>
Orcid == <<"0", "0", "0", "0", "-", "1">>

\* the link to orcid.org the site generator renders for an author with an orcid
QuartoOrcidLink ==
    [kind |-> "orcid", classes |-> <<"quarto-title-author-orcid">>,
     img |-> "quarto_png", href |-> Orcid, norm |-> FALSE]

AuthorMetas ==
    {a \in [name : {AuthorName, AuthorNameOther}, orcid : {<<>>, <<Orcid>>},
            qid : {<<>>, <<Qid>>}] :
        a.name = AuthorNameOther => (a.orcid # <<>> /\ a.qid = <<>>)}

AuthorElems ==
    [text : {AuthorName, <<" ">> \o AuthorName, <<>>},
     links : {<<>>, <<QuartoOrcidLink>>}]

AuthorPages ==
    [file : {"raw"}, elems : SeqsUpTo(AuthorElems, MaxAuthorElems)]
        \cup {[file |-> "missing", elems |-> <<>>]}

InitAuthor ==
    /\ author_page \in AuthorPages
    /\ author_meta \in SeqsUpTo(AuthorMetas, MaxAuthors)
    /\ author_run = [impl |-> "none", count |-> 0, runs |-> 0, wrote |-> FALSE]
    /\ IdleAllBut({"author"})

\* the bookkeeping of one run of the injector impl
AuthorInjected(impl, result) ==
    /\ author_run.runs < MaxAuthorRuns
    /\ author_page' = result[1]
    /\ author_run' = [impl |-> impl, count |-> result[2],
                      runs |-> author_run.runs + 1, wrote |-> result[2] > 0]
    /\ UNCHANGED author_meta
    /\ UNCHANGED notAuthor

\* inject_author_links(qmd_path, html_path)
InjectAuthorLegacy ==
    AuthorInjected("legacy", InjectAuthorResult(author_page, author_meta, "legacy"))

\* AuthorService.inject_into_html(qmd_path, html_path)
InjectAuthorService ==
    AuthorInjected("service", InjectAuthorResult(author_page, author_meta, "service"))

NextAuthor == InjectAuthorLegacy \/ InjectAuthorService

SpecAuthor == InitAuthor /\ [][NextAuthor]_vars

\* C19: a run of the author link injector after a run of the same injector
\* leaves the page as it was (one ORCID link with the same class list and
\* attributes, one Scholia link) and does not write the file.
C19_AuthorInjectIdempotent ==
    [][(author_run.impl # "none" /\ author_run'.impl = author_run.impl)
           => (author_page' = author_page /\ ~author_run'.wrote)]_vars

\* for an author with a QID and no ORCID the second run does leave the page
\* alone
C19_ScholiaLinkOnce ==
    /\ author_run.runs = 2
    /\ ~author_run.wrote
    /\ \E i \in 1..Len(author_page.elems) : HasScholiaLink(author_page.elems[i])

(***************************************************************************)
(* Talk map: the geocoding loop and the geocache                           *)
(* talk_run.events is the sequence of geocoder.geocode calls ("geocode")   *)
(* and sleep(sleep_seconds) calls ("sleep") of the run, in order.  A cache *)
(* maps a location to its entry: "old" for an entry that was in the cache  *)
(* file before the run, "new" for one made from a result of this run.      *)
(* talk_run.file is the cache file, reads and writes count the times it    *)
(* was loaded and dumped, loaded holds the locations read at the start     *)
(* and found those geocoded with a result during the run.                  *)
(***************************************************************************)
MaxTalks == 3  \* most talk files of a run

LocationA == <<"B", "e", "r", "n">>
LocationB == <<"O", "s", "l", "o">>

EmptyCache == [l \in {} |-> "old"]

\* cache[location] = {...}
CacheSet(cache, location, entry) ==
    [l \in DOMAIN cache \cup {location} |->
        IF l = location THEN entry ELSE cache[l]]

\* meta.get("location", "").strip() of the talk file at the position
TalkLocation == Strip(talk_files[talk_run.pos].location)

TalkLocations == {<<>>, <<" ">>, LocationA, LocationB}

\* a talk file: front matter that parses, with its location field, or front
\* matter that is not valid YAML
TalkFiles ==
    [parse : {"ok"}, location : TalkLocations]
        \cup {[parse |-> "bad", location |-> <<>>]}

\* the cache files a run can find: entries written by earlier runs
CacheFiles ==
    UNION {[S -> {"old"}] : S \in SUBSET {LocationA, LocationB}}

InitTalk ==
    /\ talk_cache = EmptyCache
    /\ \E dir \in BOOLEAN :
        /\ talk_files \in (IF dir THEN SeqsUpTo(TalkFiles, MaxTalks) ELSE {<<>>})
        /\ talk_run \in [impl : {"legacy", "utilities"}, phase : {"start"},
                         dir : {dir}, pos : {1}, events : {<<>>}, located : {0},
                         outcome : {"none"}, file : CacheFiles, loaded : {{}},
                         found : {{}}, reads : {0}, writes : {0}]
    /\ IdleAllBut({"talk"})

\* json.load(cache file) / GeoCache._load
LoadCache ==
    /\ talk_run.phase = "start"
    /\ talk_cache' = talk_run.file
    /\ talk_run' = [talk_run EXCEPT !.phase = "loop", !.reads = @ + 1,
                                    !.loaded = DOMAIN talk_run.file]
    /\ UNCHANGED talk_files
    /\ UNCHANGED notTalk

\* utilities talkmap: the talks directory does not exist, return
TalksDirMissing ==
    /\ talk_run.phase = "loop"
    /\ talk_run.impl = "utilities"
    /\ ~talk_run.dir
    /\ talk_run' = [talk_run EXCEPT !.phase = "returned"]
    /\ UNCHANGED <<talk_files, talk_cache>>
    /\ UNCHANGED notTalk

\* the loop is at a talk file
AtTalk ==
    /\ talk_run.phase = "loop"
    /\ talk_run.pos <= Len(talk_files)

\* the front matter of the talk file at the position parses
Parsed == talk_files[talk_run.pos].parse = "ok"

InCache_Never(location) == FALSE

\* location in cache / cache.get(location)
InCache(location) == location \in DOMAIN talk_cache

\* the loop moves to the next file having made the calls evs, added
\* n markers and logged the outcome
TalkNext(evs, n, outcome) ==
    /\ talk_run' = [talk_run EXCEPT
                       !.pos = @ + 1, !.events = @ \o evs, !.located = @ + n,
                       !.outcome = outcome,
                       !.found = IF outcome = "found"
                                 THEN @ \cup {TalkLocation} ELSE @]
    /\ UNCHANGED talk_files
    /\ UNCHANGED notTalk

\* talkmap.py: yaml.safe_load raises on the front matter; nothing catches
\* it, the run ends there
ParseFailureLegacy ==
    /\ AtTalk
    /\ talk_run.impl = "legacy"
    /\ ~Parsed
    /\ talk_run' = [talk_run EXCEPT !.phase = "aborted", !.outcome = "raised"]
    /\ UNCHANGED <<talk_files, talk_cache>>
    /\ UNCHANGED notTalk

\* utilities: YamlLoader.load_from_path returns None, continue
ParseFailureUtilities ==
    /\ AtTalk
    /\ talk_run.impl = "utilities"
    /\ ~Parsed
    /\ TalkNext(<<>>, 0, "no_metadata")
    /\ UNCHANGED talk_cache

\* no location: continue
SkipTalk ==
    /\ AtTalk
    /\ Parsed
    /\ TalkLocation = <<>>
    /\ TalkNext(<<>>, 0, "skipped")
    /\ UNCHANGED talk_cache

\* location in cache: no call
UseCache ==
    /\ AtTalk
    /\ Parsed
    /\ TalkLocation # <<>>
    /\ InCache(TalkLocation)
    /\ TalkNext(<<>>, 1, "cached")
    /\ UNCHANGED talk_cache

\* geocoder.geocode returns a result: it is cached and the run sleeps
GeocodeFound ==
    /\ AtTalk
    /\ Parsed
    /\ TalkLocation # <<>>
    /\ ~InCache(TalkLocation)
    /\ talk_cache' = CacheSet(talk_cache, TalkLocation, "new")
    /\ TalkNext(<<"geocode", "sleep">>, 1, "found")

\* geocoder.geocode returns None: warning, continue
GeocodeNotFound ==
    /\ AtTalk
    /\ Parsed
    /\ TalkLocation # <<>>
    /\ ~InCache(TalkLocation)
    /\ TalkNext(<<"geocode">>, 0, "not_found")
    /\ UNCHANGED talk_cache

\* geocoder.geocode raises: error logged, continue
GeocodeError ==
    /\ AtTalk
    /\ Parsed
    /\ TalkLocation # <<>>
    /\ ~InCache(TalkLocation)
    /\ TalkNext(<<"geocode">>, 0, "error")
    /\ UNCHANGED talk_cache

\* after the loop the cache is written
SaveCache ==
    /\ talk_run.phase = "loop"
    /\ talk_run.impl = "legacy" \/ talk_run.dir
    /\ talk_run.pos > Len(talk_files)
    /\ talk_run' = [talk_run EXCEPT !.phase = "saved", !.file = talk_cache,
                                    !.writes = @ + 1]
    /\ UNCHANGED <<talk_files, talk_cache>>
    /\ UNCHANGED notTalk

NextTalk ==
    \/ LoadCache
    \/ TalksDirMissing
    \/ ParseFailureLegacy
    \/ ParseFailureUtilities
    \/ SkipTalk
    \/ UseCache
    \/ GeocodeFound
    \/ GeocodeNotFound
    \/ GeocodeError
    \/ SaveCache

SpecTalk == InitTalk /\ [][NextTalk]_vars

\* C20: between any two consecutive geocoder.geocode calls of a run a
\* sleep has been executed, whatever the outcome of the earlier call.
C20_SleepBetweenCalls ==
    \A i \in 1..Len(talk_run.events) : \A j \in (i + 1)..Len(talk_run.events) :
        (talk_run.events[i] = "geocode" /\ talk_run.events[j] = "geocode")
            => \E k \in (i + 1)..(j - 1) : talk_run.events[k] = "sleep"

\* a run whose calls all returned a result: each call is followed by a sleep
C20_SleepAfterFound ==
    /\ talk_run.phase = "saved"
    /\ talk_run.events = <<"geocode", "sleep", "geocode", "sleep">>

\* the run is over
TalkRunOver == talk_run.phase \in {"saved", "aborted", "returned"}

\* C21: when a run is over the cache file has been read once and written
\* once, and it holds every location loaded at the start and every location
\* geocoded with a result during the run, also when talk files failed to
\* parse or locations failed to geocode.
C21_CacheReadOnceWrittenOnce ==
    TalkRunOver =>
        /\ talk_run.reads = 1
        /\ talk_run.writes = 1
        /\ talk_run.loaded \cup talk_run.found \subseteq DOMAIN talk_run.file

\* with utilities/talkmap.py and an existing talks directory the cache is
\* written once with everything in it, a file that failed to parse and a
\* call that failed included
C21_SavedAfterFailures ==
    /\ talk_run.impl = "utilities"
    /\ talk_run.phase = "saved"
    /\ talk_run.reads = 1
    /\ talk_run.writes = 1
    /\ \E i \in 1..Len(talk_files) : talk_files[i].parse = "bad"
    /\ talk_run.found # {}
    /\ talk_run.loaded # {}
    /\ talk_run.loaded \cup talk_run.found \subseteq DOMAIN talk_run.file

\* C30: a location in the cache is never sent to the geocoding service and
\* causes no sleep; no entry of the cache is removed or overwritten during
\* the loop, and the cache grows only by the one entry of a newly geocoded
\* location.
C30_CacheOnlyGrows ==
    [][talk_run.phase = "loop" =>
          /\ \A l \in DOMAIN talk_cache :
                l \in DOMAIN talk_cache' /\ talk_cache'[l] = talk_cache[l]
          /\ (AtTalk /\ Parsed /\ TalkLocation \in DOMAIN talk_cache)
                => (talk_run'.events = talk_run.events /\ talk_cache' = talk_cache)
          /\ talk_cache' # talk_cache
                => /\ talk_run'.outcome = "found"
                   /\ DOMAIN talk_cache' = DOMAIN talk_cache \cup {TalkLocation}
                   /\ TalkLocation \notin DOMAIN talk_cache]_vars

\* a talk whose location was in the cache file has been handled from the
\* cache, after another location was geocoded and added
C30_Witness ==
    /\ talk_run.outcome = "cached"
    /\ talk_run.events = <<"geocode", "sleep">>
    /\ \E l \in DOMAIN talk_cache : talk_cache[l] = "old"
    /\ \E l \in DOMAIN talk_cache : talk_cache[l] = "new"

(***************************************************************************)
(* RSS to JSON Feed conversion                                             *)
(* The feed is the variable rss; here an item is [title, link, guid, doi,  *)
(* desc], a description also says whether it has a paragraph (p), and a    *)
(* bibliography entry also has href, the target of its first link (none    *)
(* or one).  The rendered bibliography div carries id="refs" and           *)
(* class="references".  A JSON item is a record of its keys, each absent   *)
(* (<<>>) or present; references is the list under _references.  Of the    *)
(* children of an item only those above are modelled: an item has no       *)
(* pubDate, category or creator.  json_run.fresh says that the JSON file   *)
(* was written from the feed as it is now.                                 *)
(***************************************************************************)
MaxJsonItems == 2     \* most items of a feed that is converted
MaxServiceItems == 3  \* most items of a feed the service converts

JSON_FEED_VERSION == "https://jsonfeed.org/version/1.1"

\* get_element_text: the stripped text of the child, None if there is no
\* child or it has no text
get_element_text(child) ==
    IF child = <<>> \/ child[1] = <<>> THEN <<>> ELSE <<Strip(child[1])>>

\* if value: (a text that is there and not empty)
Truthy(value) == value # <<>> /\ value[1] # <<>>

\* get_element_text(item, "description")
DescriptionText(desc) ==
    IF desc.kind = "html" THEN <<desc>> ELSE <<>>

EndsWith(s, suffix) ==
    /\ Len(s) >= Len(suffix)
    /\ SubSeq(s, Len(s) - Len(suffix) + 1, Len(s)) = suffix

\* s.split(sep)[-1]
RECURSIVE AfterLast(_, _)
AfterLast(s, sep) ==
    LET found == {i \in 1..(Len(s) - Len(sep) + 1) :
                     SubSeq(s, i, i + Len(sep) - 1) = sep}
    IN  IF found = {} THEN s
        ELSE LET i == CHOOSE k \in found : \A j \in found : k <= j
             IN  AfterLast(SubSeq(s, i + Len(sep), Len(s)), sep)

DX_DOI_PREFIX ==
    <<"h", "t", "t", "p", ":", "/", "/", "d", "x", ".",
      "d", "o", "i", ".", "o", "r", "g", "/">>

DoiOrgSlash == <<"d", "o", "i", ".", "o", "r", "g", "/">>

CitoOpen == <<"[", "c", "i", "t", "o", ":">>

\* the loop over the span.cito elements of an entry: the text between
\* "[cito:" and the last "]" of each span that starts and ends that way
RECURSIVE CitoRelations(_)
CitoRelations(spans) ==
    IF spans = <<>> THEN <<>>
    ELSE LET text == Strip(Head(spans))
         IN  (IF StartsWith(text, CitoOpen) /\ EndsWith(text, <<"]">>)
              THEN <<SubSeq(text, 7, Len(text) - 1)>> ELSE <<>>)
             \o CitoRelations(Tail(spans))

\* one bibliography entry: the reference made of it, none unless it has a
\* DOI link and a cito relation
EntryReference(entry) ==
    LET url == IF entry.href = <<>> THEN <<>> ELSE entry.href[1]
        is_doi == /\ entry.href # <<>>
                  /\ \/ StartsWith(url, DX_DOI_PREFIX)
                     \/ StartsWith(url, DOI_URL_PREFIX)
        cito_relations == CitoRelations(entry.spans)
    IN  IF is_doi /\ AfterLast(url, DoiOrgSlash) # <<>> /\ cito_relations # <<>>
        THEN <<[url |-> IF StartsWith(url, DX_DOI_PREFIX)
                        THEN DOI_URL_PREFIX \o SubSeq(url, Len(DX_DOI_PREFIX) + 1, Len(url))
                        ELSE url,
                doi |-> AfterLast(url, DoiOrgSlash),
                cito |-> cito_relations]>>
        ELSE <<>>

\* the references of a description: the entries div.csl-entry inside
\* div.references
ItemReferences(desc) ==
    IF desc.refs # "div" THEN <<>>
    ELSE Concat([j \in 1..Len(desc.entries) |->
                    IF desc.entries[j].csl THEN EntryReference(desc.entries[j])
                    ELSE <<>>])

EmptyItemData ==
    [title |-> <<>>, url |-> <<>>, id |-> <<>>, content_html |-> <<>>,
     summary |-> <<>>, date_modified |-> <<>>, references |-> <<>>]

\* title, url and id from title, link and guid
BasicFields(item) ==
    [EmptyItemData EXCEPT
        !.title = IF Truthy(get_element_text(item.title))
                  THEN get_element_text(item.title) ELSE <<>>,
        !.url = IF Truthy(get_element_text(item.link))
                THEN get_element_text(item.link) ELSE <<>>,
        !.id = IF Truthy(get_element_text(item.guid))
               THEN get_element_text(item.guid) ELSE <<>>]

\* content_html and summary from the description, the id from the doi child
WithContentAndDoi(item_data, item) ==
    LET description == DescriptionText(item.desc)
        doi == get_element_text(item.doi)
    IN  [item_data EXCEPT
            !.content_html = description,
            !.summary = IF description # <<>> /\ item.desc.p
                        THEN <<"first paragraph">> ELSE <<>>,
            !.id = IF Truthy(doi) THEN doi ELSE @]

\* convert_rss_to_json_feed.extract_item_data: <<raised, item_data>>; soup
\* is bound only under "if description:" and read after it all the same
extract_item_data(item) ==
    IF DescriptionText(item.desc) = <<>> THEN <<TRUE, EmptyItemData>>
    ELSE <<FALSE, [WithContentAndDoi(BasicFields(item), item) EXCEPT
                      !.references = ItemReferences(item.desc)]>>

\* utilities/convert_rss_to_json_feed.extract_item_data: the references are
\* read under "if description:", and date_modified is always set (to None
\* when there is neither a QMD file nor a pubDate)
utilities_extract_item_data(item) ==
    <<FALSE, [WithContentAndDoi(BasicFields(item), item) EXCEPT
                 !.date_modified = <<"null">>,
                 !.references = IF DescriptionText(item.desc) = <<>> THEN <<>>
                                ELSE ItemReferences(item.desc)]>>

\* the JSON feed of a feed with a channel: <<raised, feed>>; an item_data
\* that is empty is left out
ConvertChannel(feed, impl) ==
    LET data == [i \in 1..Len(feed.items) |->
                    IF impl = "legacy" THEN extract_item_data(feed.items[i])
                    ELSE utilities_extract_item_data(feed.items[i])]
        raised == \E i \in 1..Len(data) : data[i][1]
        kept == SelectSeq([i \in 1..Len(data) |-> data[i][2]],
                          LAMBDA d : d # EmptyItemData)
    IN  <<raised,
          [file |-> "written", version |-> JSON_FEED_VERSION,
           title |-> IF Truthy(get_element_text(feed.title))
                     THEN get_element_text(feed.title)[1] ELSE <<>>,
           items |-> kept]>>

\* convert_rss_to_json_feed (legacy and utilities): <<JSON file afterwards,
\* raised, written>>; an exception is printed and nothing is written
ConvertResult(feed, out, impl) ==
    IF feed.file = "missing" \/ ~feed.channel THEN <<out, FALSE, FALSE>>
    ELSE LET r == ConvertChannel(feed, impl)
         IN  IF r[1] THEN <<out, TRUE, FALSE>> ELSE <<r[2], FALSE, TRUE>>

\* FeedService._convert_rss_item_to_json: None without a title
convert_rss_item_to_json(item) ==
    LET title == get_element_text(item.title)
        link == get_element_text(item.link)
        guid == get_element_text(item.guid)
    IN  IF ~Truthy(title) THEN <<>>
        ELSE <<[EmptyItemData EXCEPT
                   !.title = title,
                   !.url = IF Truthy(link) THEN link ELSE <<>>,
                   !.id = IF Truthy(guid) THEN guid
                          ELSE IF Truthy(link) THEN link ELSE <<>>,
                   !.content_html = DescriptionText(item.desc)]>>

\* "#item-" and the index of the item
ItemFragment(idx) == <<"#", "i", "t", "e", "m", "-", ToString(idx)>>

\* FeedService.convert_rss_to_json_feed: the loop that makes the ids present
\* and unique, from position idx (counted from 1 here) on
RECURSIVE NormalizeIds(_, _, _)
NormalizeIds(items, idx, seen_ids) ==
    IF idx > Len(items) THEN items
    ELSE LET itm == items[idx]
             url == itm.url
             iid1 == IF itm.id = <<>> /\ url # <<>> THEN url ELSE itm.id
             iid2 == IF iid1 # <<>> /\ iid1[1] \in seen_ids
                     THEN IF url # <<>> /\ url # iid1 THEN url
                          ELSE <<(IF url # <<>> THEN url[1] ELSE iid1[1])
                                    \o ItemFragment(idx - 1)>>
                     ELSE iid1
         IN  NormalizeIds([items EXCEPT ![idx].id = iid2], idx + 1,
                          IF iid2 # <<>> THEN seen_ids \cup {iid2[1]} ELSE seen_ids)

\* FeedService.convert_rss_to_json_feed: <<JSON file afterwards, raised, written>>
ServiceConvertResult(feed, out) ==
    IF feed.file = "missing" \/ ~feed.channel THEN <<out, FALSE, FALSE>>
    ELSE LET items == Concat([i \in 1..Len(feed.items) |->
                                 convert_rss_item_to_json(feed.items[i])])
         IN  <<[file |-> "written", version |-> JSON_FEED_VERSION,
                title |-> IF Truthy(get_element_text(feed.title))
                          THEN get_element_text(feed.title)[1] ELSE <<>>,
                items |-> NormalizeIds(items, 1, {})],
               FALSE, TRUE>>

OtherUrl == <<"h", "t", "t", "p", "s", ":", "/", "/", "x", ".", "o", "r", "g">>

\* a bibliography entry of a description with the target of its link
JsonEntry(href) ==
    [id |-> REF_ID_PREFIX \o MergeIdA, csl |-> TRUE, spans |-> <<>>, href |-> <<href>>]

PlainDescription ==
    [kind |-> "html", form |-> "raw", refs |-> "none", entries |-> <<>>, p |-> FALSE]

RefsDescription(href) ==
    [kind |-> "html", form |-> "raw", refs |-> "div",
     entries |-> <<JsonEntry(href)>>, p |-> TRUE]

JsonItem(link, guid, doi, desc) ==
    [title |-> <<ItemTitle>>, link |-> link, guid |-> guid, doi |-> doi, desc |-> desc]

\* the items of a feed: with a bibliography (DOI link or other link), with
\* a doi child, with neither guid nor doi, with no or an empty description,
\* with a title only
JsonRssItems ==
    {JsonItem(<<ItemLink>>, <<ItemLink>>, <<>>, RefsDescription(DOI_URL_PREFIX \o BareDoi)),
     JsonItem(<<ItemLink>>, <<ItemLink>>, <<>>, RefsDescription(OtherUrl)),
     JsonItem(<<ItemLink>>, <<ItemLink>>, <<DOI_URL_PREFIX \o BareDoi>>, PlainDescription),
     JsonItem(<<ItemLink>>, <<>>, <<>>, PlainDescription),
     JsonItem(<<ItemLink>>, <<ItemLink>>, <<>>,
              [PlainDescription EXCEPT !.kind = "absent"]),
     JsonItem(<<ItemLink>>, <<ItemLink>>, <<>>,
              [PlainDescription EXCEPT !.kind = "empty"]),
     JsonItem(<<>>, <<>>, <<>>, PlainDescription)}

SiteTitle == <<"S">>

JsonRssFeeds ==
    [file : {"raw"}, channel : {TRUE}, title : {<<SiteTitle>>},
     items : SeqsUpTo(JsonRssItems, MaxJsonItems)]
        \cup {[file |-> "raw", channel |-> FALSE, title |-> <<>>, items |-> <<>>],
              [file |-> "missing", channel |-> FALSE, title |-> <<>>, items |-> <<>>]}

\* the registries of a run: nothing, one property, two properties for the
\* reference
JsonRegistries ==
    {EmptyDict, MapPut(EmptyDict, MergeIdA, <<supports>>),
     MapPut(EmptyDict, MergeIdA, <<cites_as_evidence, supports>>)}

InitJson ==
    /\ rss \in JsonRssFeeds
    /\ rss_run = [impl |-> "none", props |-> EmptyDict, wrote |-> FALSE,
                  new |-> {}, repeat |-> FALSE, prev_wrote |-> FALSE]
    /\ doi_docs = <<>>
    /\ doi_run = [impl |-> "none", wrote |-> FALSE, repeat |-> FALSE,
                  prev_wrote |-> FALSE]
    /\ json_out = [file |-> "missing", version |-> "", title |-> <<>>, items |-> <<>>]
    /\ json_run \in [impl : {"none"}, raised : {FALSE}, wrote : {FALSE},
                     props : JsonRegistries, injected : {{}}, fresh : {FALSE},
                     pipe : {"none"}, pc : {"free"}]
    /\ IdleAllBut({"rss", "json"})

\* the bookkeeping of one conversion by impl
Converted(impl, result) ==
    /\ json_out' = result[1]
    /\ json_run' = [json_run EXCEPT !.impl = impl, !.raised = result[2],
                                    !.wrote = result[3],
                                    !.fresh = result[3] \/ (@ /\ ~result[2])]
    /\ UNCHANGED rssVars
    /\ UNCHANGED notRssJson

\* inject_cito_annotations_in_rss with the registry of the run
JsonInjectCito ==
    /\ json_run.pc = "free"
    /\ LET r == LegacyRssResult(rss, json_run.props)
       IN  /\ rss' = r[1]
           /\ json_run' = [json_run EXCEPT !.injected = @ \cup r[3],
                                           !.fresh = @ /\ ~r[2]]
    /\ UNCHANGED <<rss_run, doi_docs, doi_run, json_out>>
    /\ UNCHANGED notRssJson

\* convert_rss_to_json_feed.convert_rss_to_json_feed
ConvertJsonLegacy ==
    /\ json_run.pc = "free"
    /\ Converted("legacy", ConvertResult(rss, json_out, "legacy"))

\* utilities/convert_rss_to_json_feed.convert_rss_to_json_feed
ConvertJsonUtilities ==
    /\ json_run.pc = "free"
    /\ Converted("utilities", ConvertResult(rss, json_out, "utilities"))

NextJson ==
    \/ JsonInjectCito
    \/ ConvertJsonLegacy
    \/ ConvertJsonUtilities

SpecJson == InitJson /\ [][NextJson]_vars

OtherLink == <<"l", "i", "n", "k", "2">>
Guid == <<"g", "u", "i", "d">>

\* the items the service is given: items sharing a guid, items sharing a
\* link, items without guid, an item with a title only
ServiceRssItems ==
    {JsonItem(<<ItemLink>>, <<Guid>>, <<>>, PlainDescription),
     JsonItem(<<OtherLink>>, <<Guid>>, <<>>, PlainDescription),
     JsonItem(<<ItemLink>>, <<>>, <<>>, PlainDescription),
     JsonItem(<<>>, <<Guid>>, <<>>, PlainDescription),
     JsonItem(<<>>, <<>>, <<>>, PlainDescription)}

InitJsonService ==
    /\ rss \in [file : {"raw"}, channel : {TRUE}, title : {<<SiteTitle>>},
                items : SeqsUpTo(ServiceRssItems, MaxServiceItems)]
    /\ rss_run = [impl |-> "none", props |-> EmptyDict, wrote |-> FALSE,
                  new |-> {}, repeat |-> FALSE, prev_wrote |-> FALSE]
    /\ doi_docs = <<>>
    /\ doi_run = [impl |-> "none", wrote |-> FALSE, repeat |-> FALSE,
                  prev_wrote |-> FALSE]
    /\ json_out = [file |-> "missing", version |-> "", title |-> <<>>, items |-> <<>>]
    /\ json_run = [impl |-> "none", raised |-> FALSE, wrote |-> FALSE,
                   props |-> EmptyDict, injected |-> {}, fresh |-> FALSE,
                   pipe |-> "none", pc |-> "free"]
    /\ IdleAllBut({"rss", "json"})

\* FeedService.convert_rss_to_json_feed
ConvertJsonService ==
    /\ json_run.pc = "free"
    /\ Converted("service", ServiceConvertResult(rss, json_out))

NextJsonService == ConvertJsonService

SpecJsonService == InitJsonService /\ [][NextJsonService]_vars

\* C22: the JSON feed written by convert_rss_to_json_feed has the version
\* of JSON Feed 1.1, a title, its items, and a non-empty id in every item.
C22_JsonFeedRequiredFields ==
    (json_run.impl \in {"legacy", "utilities"} /\ json_run.wrote) =>
        /\ json_out.file = "written"
        /\ json_out.version = JSON_FEED_VERSION
        /\ \A i \in 1..Len(json_out.items) : Truthy(json_out.items[i].id)

\* the version and the id of an item with a guid or a doi child are there
C22_IdFromGuidOrDoi ==
    /\ json_run.impl = "utilities"
    /\ json_run.wrote
    /\ json_out.version = JSON_FEED_VERSION
    /\ Len(json_out.items) = 2
    /\ json_out.items[1].id = <<ItemLink>>
    /\ json_out.items[2].id = <<DOI_URL_PREFIX \o BareDoi>>

C25_TwoItemsDisambiguated ==
    /\ json_run.impl = "service"
    /\ Len(json_out.items) = 2
    /\ rss.items[1] = rss.items[2]
    /\ json_out.items[1].id = <<Guid>>
    /\ json_out.items[2].id = <<ItemLink>>

\* C29: a conversion of a feed with a channel in which an item has no
\* description, or an empty one, writes a JSON feed with an item for every
\* RSS item, the item without description having no content_html, summary
\* or _references.
C29_NoDescriptionConverted ==
    (json_run.impl \in {"legacy", "utilities"} /\ rss.file # "missing" /\ rss.channel) =>
        /\ ~json_run.raised
        /\ json_run.wrote
        /\ Len(json_out.items) = Len(rss.items)
        /\ \A i \in 1..Len(rss.items) :
              DescriptionText(rss.items[i].desc) = <<>> =>
                 /\ json_out.items[i].content_html = <<>>
                 /\ json_out.items[i].summary = <<>>
                 /\ json_out.items[i].references = <<>>

\* utilities/convert_rss_to_json_feed.py does write the item that has no
\* description
C29_UtilitiesKeepsItem ==
    /\ json_run.impl = "utilities"
    /\ json_run.wrote
    /\ Len(json_out.items) = Len(rss.items)
    /\ \E i \in 1..Len(rss.items) :
          /\ rss.items[i].desc.kind = "absent"
          /\ json_out.items[i].content_html = <<>>
          /\ json_out.items[i].title = <<ItemTitle>>

\* the camelCase names of the properties of a reference in the registry
CamelNames(cite_id) ==
    [k \in 1..Len(json_run.props[cite_id]) |->
        snake_to_camel_case(json_run.props[cite_id][k])]

\* the entries with a DOI link that the injector annotated in this run
AnnotatedDoiEntries ==
    {ij \in json_run.injected :
        LET e == rss.items[ij[1]].desc.entries[ij[2]]
        IN  e.href # <<>> /\ StartsWith(e.href[1], DOI_URL_PREFIX)}

\* C27: for an entry with a DOI link that the CiTO injector annotated with
\* the properties p1..pn, the JSON feed converted from the annotated feed
\* has a reference with that DOI whose cito list is the camelCase names of
\* p1..pn, one element per property.
C27_AnnotationsRoundTrip ==
    (/\ json_run.impl \in {"legacy", "utilities"}
     /\ json_run.fresh
     /\ Len(json_out.items) = Len(rss.items)) =>
        \A ij \in AnnotatedDoiEntries :
            LET e == rss.items[ij[1]].desc.entries[ij[2]]
                cite_id == SubSeq(e.id, Len(REF_ID_PREFIX) + 1, Len(e.id))
            IN  \E r \in 1..Len(json_out.items[ij[1]].references) :
                    LET ref == json_out.items[ij[1]].references[r]
                    IN  /\ ref.doi = AfterLast(e.href[1], DoiOrgSlash)
                        /\ ref.cito = CamelNames(cite_id)

\* with one property the list has that one name
C27_OnePropertyRoundTrip ==
    /\ json_run.impl = "legacy"
    /\ json_run.fresh
    /\ AnnotatedDoiEntries # {}
    /\ \E i \in 1..Len(json_out.items) :
          /\ Len(json_out.items[i].references) = 1
          /\ json_out.items[i].references[1].doi = BareDoi
          /\ json_out.items[i].references[1].cito = <<supports>>

(***************************************************************************)
(* postrender: the feed step                                               *)
(* json_run.pipe is the implementation of the step (process_rss_and_feeds  *)
(* or FeedService.process_feeds) and json_run.pc the call it has reached:  *)
(* "start", then "doi" after the DOI injection, "cito" after the CiTO      *)
(* injection, "done" after the conversion.                                 *)
(***************************************************************************)
ConvertAt_Start == "start"

\* the position of the step at which the conversion is called
ConvertAt == "cito"

\* the feeds of the step: items whose title is that of the post with a DOI
\* or another one, with and without a bibliography, one without description
FeedStepItems ==
    {JsonItem(<<ItemLink>>, <<ItemLink>>, <<>>, RefsDescription(DOI_URL_PREFIX \o BareDoi)),
     JsonItem(<<ItemLink>>, <<>>, <<>>, PlainDescription),
     [JsonItem(<<ItemLink>>, <<ItemLink>>, <<>>, PlainDescription)
         EXCEPT !.title = <<OtherTitle>>],
     JsonItem(<<ItemLink>>, <<ItemLink>>, <<>>,
              [PlainDescription EXCEPT !.kind = "absent"])}

\* a JSON feed left by an earlier build
OldJsonFeed ==
    [file |-> "written", version |-> JSON_FEED_VERSION, title |-> SiteTitle,
     items |-> <<>>]

InitFeedStep ==
    /\ rss \in [file : {"raw"}, channel : {TRUE}, title : {<<SiteTitle>>},
                items : SeqsUpTo(FeedStepItems, MaxJsonItems)]
    /\ rss_run = [impl |-> "none", props |-> EmptyDict, wrote |-> FALSE,
                  new |-> {}, repeat |-> FALSE, prev_wrote |-> FALSE]
    /\ doi_docs \in {<<>>, <<[title |-> <<ItemTitle>>, doi |-> <<BareDoi>>]>>}
    /\ doi_run = [impl |-> "none", wrote |-> FALSE, repeat |-> FALSE,
                  prev_wrote |-> FALSE]
    /\ json_out \in {[file |-> "missing", version |-> "", title |-> <<>>,
                      items |-> <<>>], OldJsonFeed}
    /\ json_run \in [impl : {"none"}, raised : {FALSE}, wrote : {FALSE},
                     props : JsonRegistries, injected : {{}}, fresh : {FALSE},
                     pipe : {"legacy", "service"}, pc : {"start"}]
    /\ IdleAllBut({"rss", "json"})

\* an injection of the step: the feed afterwards, the position reached
FeedStepInjected(pipe, from, to, feed, new) ==
    /\ json_run.pipe = pipe
    /\ json_run.pc = from
    /\ rss' = feed
    /\ json_run' = [json_run EXCEPT !.pc = to, !.injected = @ \cup new]
    /\ UNCHANGED <<rss_run, doi_docs, doi_run, json_out>>
    /\ UNCHANGED notRssJson

\* process_rss_and_feeds: inject_doi_in_rss
FeedStepDoiLegacy ==
    FeedStepInjected("legacy", "start", "doi",
                     DoiResult(rss, doi_docs, "legacy")[1], {})

\* process_rss_and_feeds: inject_cito_annotations_in_rss
FeedStepCitoLegacy ==
    LET r == LegacyRssResult(rss, json_run.props)
    IN  FeedStepInjected("legacy", "doi", "cito", r[1], r[3])

\* the conversion of the step
FeedStepConverted(pipe, impl, result) ==
    /\ json_run.pipe = pipe
    /\ json_run.pc = ConvertAt
    /\ json_out' = result[1]
    /\ json_run' = [json_run EXCEPT !.pc = "done", !.impl = impl,
                                    !.raised = result[2], !.wrote = result[3],
                                    !.fresh = result[3]]
    /\ UNCHANGED rssVars
    /\ UNCHANGED notRssJson

\* process_rss_and_feeds: convert_rss_to_json_feed
FeedStepConvertLegacy ==
    FeedStepConverted("legacy", "legacy", ConvertResult(rss, json_out, "legacy"))

\* FeedService.process_feeds: inject_doi_in_rss
FeedStepDoiService ==
    FeedStepInjected("service", "start", "doi",
                     DoiResult(rss, doi_docs, "service")[1], {})

\* FeedService.process_feeds: inject_cito_in_rss
FeedStepCitoService ==
    LET r == FeedRssResult(rss, json_run.props)
    IN  FeedStepInjected("service", "doi", "cito", r[1], r[3])

\* FeedService.process_feeds: convert_rss_to_json_feed
FeedStepConvertService ==
    FeedStepConverted("service", "service", ServiceConvertResult(rss, json_out))

NextFeedStep ==
    \/ FeedStepDoiLegacy
    \/ FeedStepCitoLegacy
    \/ FeedStepConvertLegacy
    \/ FeedStepDoiService
    \/ FeedStepCitoService
    \/ FeedStepConvertService

SpecFeedStep == InitFeedStep /\ [][NextFeedStep]_vars

\* nothing is left to inject into the feed: another run of the DOI injector
\* and of the CiTO injector of the step would change nothing
FullyInjected ==
    IF json_run.pipe = "legacy"
    THEN /\ DoiResult(rss, doi_docs, "legacy")[1] = rss
         /\ LegacyRssResult(rss, json_run.props)[1] = rss
    ELSE /\ DoiResult(rss, doi_docs, "service")[1] = rss
         /\ FeedRssResult(rss, json_run.props)[1] = rss

\* C28: the JSON feed is written only from the feed after both injections
\* of the step, and each JSON item whose RSS item has a doi element has
\* that DOI as its id.
C28_JsonAfterInjections ==
    [][json_out' # json_out =>
          /\ rss' = rss
          /\ FullyInjected
          /\ Len(json_out'.items) = Len(rss.items)
          /\ \A i \in 1..Len(rss.items) :
                Truthy(rss.items[i].doi) =>
                    json_out'.items[i].id = <<Strip(rss.items[i].doi[1])>>]_vars

\* the step has written the JSON feed of a feed in which an item received
\* its doi element and an entry its annotation
C28_Witness ==
    /\ json_run.pc = "done"
    /\ json_run.pipe = "legacy"
    /\ json_run.wrote
    /\ json_run.injected # {}
    /\ \E i \in 1..Len(rss.items) :
          /\ rss.items[i].doi = <<DOI_URL_PREFIX \o BareDoi>>
          /\ json_out.items[i].id = <<DOI_URL_PREFIX \o BareDoi>>

(***************************************************************************)
(* Citation registry                                                       *)
(* registry is CitationRegistry.citations with each Citation as the set of *)
(* the values of its properties.                                           *)
(***************************************************************************)
MaxRegistryCalls == 3  \* most calls made on one registry

\* Citation.from_dict: a name that is no value of CitoProperty becomes
\* CitoProperty.CITATION
from_dict(properties) ==
    {IF prop \in CitoVocabulary THEN prop ELSE DEFAULT_CITO_PROPERTY :
        prop \in properties}

\* CitationRegistry.add_citation (merge_with is the union of the properties)
add_citation(citations, cite_id, properties) ==
    IF cite_id \in DOMAIN citations
    THEN MapPut(citations, cite_id, citations[cite_id] \cup properties)
    ELSE MapPut(citations, cite_id, properties)

\* CitationRegistry.merge_from_dict: the loop over the items of cito_dict,
\* ids being the keys not handled yet
RECURSIVE merge_from_dict(_, _, _)
merge_from_dict(citations, cito_dict, ids) ==
    IF ids = {} THEN citations
    ELSE LET cite_id == CHOOSE k \in ids : TRUE
         IN  merge_from_dict(add_citation(citations, cite_id,
                                          from_dict(cito_dict[cite_id])),
                             cito_dict, ids \ {cite_id})

\* the names supplied so far, with those of one more call
Supplied(supplied, cito_dict) ==
    [k \in DOMAIN supplied \cup DOMAIN cito_dict |->
        (IF k \in DOMAIN supplied THEN supplied[k] ELSE {})
            \cup (IF k \in DOMAIN cito_dict THEN cito_dict[k] ELSE {})]

\* the dictionaries handed to merge_from_dict: property names as parsed
\* from a document, in the vocabulary or not
CitoDicts ==
    UNION {[ids -> SUBSET {cites, supports, PropX}] :
              ids \in SUBSET {MergeIdA, MergeIdB}}

InitRegistry ==
    /\ registry = EmptyDict
    /\ reg_supplied = EmptyDict
    /\ reg_calls = 0
    /\ IdleAllBut({"registry"})

\* registry.add_citation(Citation(cite_id, properties))
AddCitation ==
    /\ reg_calls < MaxRegistryCalls
    /\ \E cite_id \in {MergeIdA, MergeIdB}, properties \in SUBSET {cites, supports} :
        /\ registry' = add_citation(registry, cite_id, properties)
        /\ reg_supplied' = Supplied(reg_supplied, MapPut(EmptyDict, cite_id, properties))
    /\ reg_calls' = reg_calls + 1
    /\ UNCHANGED notRegistry

\* registry.merge_from_dict(cito_dict)
MergeFromDict ==
    /\ reg_calls < MaxRegistryCalls
    /\ \E cito_dict \in CitoDicts :
        /\ registry' = merge_from_dict(registry, cito_dict, DOMAIN cito_dict)
        /\ reg_supplied' = Supplied(reg_supplied, cito_dict)
    /\ reg_calls' = reg_calls + 1
    /\ UNCHANGED notRegistry

NextRegistry == AddCitation \/ MergeFromDict

SpecRegistry == InitRegistry /\ [][NextRegistry]_vars

\* C24: the registry holds one Citation for each citation id ever added, and
\* its properties are the union of all properties supplied for that id.
C24_RegistryIsUnion ==
    /\ DOMAIN registry = DOMAIN reg_supplied
    /\ \A cite_id \in DOMAIN registry : registry[cite_id] = reg_supplied[cite_id]

\* names of the vocabulary supplied in several calls are merged by union
C24_UnionOfVocabularyNames ==
    /\ reg_calls = 2
    /\ MergeIdA \in DOMAIN registry
    /\ registry[MergeIdA] = {cites, supports}
    /\ reg_supplied[MergeIdA] = {cites, supports}

(***************************************************************************)
(* Metadata updater                                                        *)
(* A front-matter line is [key, style, text]: style is how the scalar is   *)
(* written (plain, 'single' or "double" quoted); text is a pair of a       *)
(* string and the serial number of a minted DOI (0 otherwise).             *)
(***************************************************************************)
FilenameDate == "2024-01-01"
OtherDate == "2023-05-05"

\* PyYAML resolves a plain scalar of the form YYYY-MM-DD to a timestamp
LooksLikeDate(text) == text[1] \in {FilenameDate, OtherDate}

NoneVal == [t |-> "none", v |-> <<"none", 0>>]
StrVal(text) == [t |-> "str", v |-> text]

\* yaml.safe_load of one scalar: a quoted scalar is a str, a plain one that
\* looks like a date is a datetime.date
LoadScalar(line) ==
    IF line.style = "plain" /\ LooksLikeDate(line.text)
    THEN [t |-> "date", v |-> line.text]
    ELSE StrVal(line.text)

\* yaml.safe_load(front_matter) or {}: the mapping, in the order of the lines
Load(lines) ==
    [i \in 1..Len(lines) |-> [key |-> lines[i].key, val |-> LoadScalar(lines[i])]]

\* "key" in data, data.get(key), data[key] = val
DictHas(data, key) == \E i \in 1..Len(data) : data[i].key = key
DictGet(data, key) ==
    IF DictHas(data, key)
    THEN data[CHOOSE i \in 1..Len(data) : data[i].key = key].val
    ELSE NoneVal
DictSet(data, key, val) ==
    IF DictHas(data, key)
    THEN [i \in 1..Len(data) |->
             IF data[i].key = key THEN [key |-> key, val |-> val] ELSE data[i]]
    ELSE Append(data, [key |-> key, val |-> val])

\* yaml.dump of one entry: a date is written plain, a str that would be read
\* back as a date is single-quoted, any other str is written plain
DumpLine(entry) ==
    [key |-> entry.key,
     style |-> IF entry.val.t = "str" /\ LooksLikeDate(entry.val.v)
               THEN "single" ELSE "plain",
     text |-> entry.val.v]

\* the quote clean-up of the dumped lines: quotes are removed from the line
\* that starts with "date:", single quotes become double quotes elsewhere
CleanQuotes(line) ==
    IF line.key = "date" THEN [line EXCEPT !.style = "plain"]
    ELSE IF line.style = "single" THEN [line EXCEPT !.style = "double"]
    ELSE line

\* the lines written last key first
WriteFrontmatter_Reversed(data) ==
    [i \in 1..Len(data) |-> CleanQuotes(DumpLine(data[Len(data) + 1 - i]))]

\* MetadataService._write_frontmatter / the tail of update_yaml_header
WriteFrontmatter(data) ==
    [i \in 1..Len(data) |-> CleanQuotes(DumpLine(data[i]))]

\* yaml.dump(dat) of prerender: keys sorted, no clean-up
KeyOrder == <<"date", "doi", "title">>
DumpSorted(data) ==
    LET line(k) == IF DictHas(data, k)
                   THEN <<DumpLine([key |-> k, val |-> DictGet(data, k)])>>
                   ELSE <<>>
    IN  Concat([i \in 1..Len(KeyOrder) |-> line(KeyOrder[i])])

\* make_date / FileSystem.extract_date_from_filename: path.stem.split("_")[0]
make_date(name) == Head(name)

\* make_doi / MetadataService._generate_doi: the n-th DOI of the service
make_doi(n) == <<"10.59350", n>>

\* the data the updaters parse from the post
FrontData(p) == IF p.fm THEN Load(p.lines) ELSE <<>>

\* update_yaml_header: [post afterwards, wrote, changed, minted]
update_yaml_header(p, n) ==
    LET data == FrontData(p)
    IN  IF DictHas(data, "doi")
        THEN [file |-> p, wrote |-> FALSE, changed |-> FALSE, minted |-> n]
        ELSE LET date_str == StrVal(<<make_date(p.name), 0>>)
                 d1 == IF DictGet(data, "date") # date_str
                       THEN DictSet(data, "date", date_str) ELSE data
                 d2 == DictSet(d1, "doi", StrVal(make_doi(n + 1)))
             IN  [file |-> [p EXCEPT !.fm = TRUE, !.lines = WriteFrontmatter(d2)],
                  wrote |-> TRUE, changed |-> TRUE, minted |-> n + 1]

\* update_post_metadata minting whenever generate_doi is set
update_post_metadata_AlwaysMint(p, generate_doi, n) ==
    LET data == FrontData(p)
    IN  IF DictHas(data, "doi") /\ ~generate_doi
        THEN [file |-> p, wrote |-> FALSE, changed |-> FALSE, minted |-> n]
        ELSE LET date_str == StrVal(<<make_date(p.name), 0>>)
                 d1 == IF DictGet(data, "date") # date_str
                       THEN DictSet(data, "date", date_str) ELSE data
                 d2 == IF generate_doi
                       THEN DictSet(d1, "doi", StrVal(make_doi(n + 1))) ELSE d1
                 changed == d2 # data
             IN  IF changed
                 THEN [file |-> [p EXCEPT !.fm = TRUE,
                                          !.lines = WriteFrontmatter(d2)],
                       wrote |-> TRUE, changed |-> TRUE,
                       minted |-> IF generate_doi THEN n + 1 ELSE n]
                 ELSE [file |-> p, wrote |-> FALSE, changed |-> FALSE,
                       minted |-> n]

\* MetadataService.update_post_metadata: [post afterwards, wrote, changed, minted]
update_post_metadata(p, generate_doi, n) ==
    LET data == FrontData(p)
    IN  IF DictHas(data, "doi") /\ ~generate_doi
        THEN [file |-> p, wrote |-> FALSE, changed |-> FALSE, minted |-> n]
        ELSE LET date_str == StrVal(<<make_date(p.name), 0>>)
                 date_changed == DictGet(data, "date") # date_str
                 d1 == IF date_changed
                       THEN DictSet(data, "date", date_str) ELSE data
                 mint == generate_doi /\ ~DictHas(data, "doi")
                 d2 == IF mint
                       THEN DictSet(d1, "doi", StrVal(make_doi(n + 1))) ELSE d1
                 changed == date_changed \/ mint
             IN  IF changed
                 THEN [file |-> [p EXCEPT !.fm = TRUE,
                                          !.lines = WriteFrontmatter(d2)],
                       wrote |-> TRUE, changed |-> TRUE,
                       minted |-> IF mint THEN n + 1 ELSE n]
                 ELSE [file |-> p, wrote |-> FALSE, changed |-> FALSE,
                       minted |-> n]

\* check_metadata on the _metadata.yml beside post p
check_metadata(p, m, n) ==
    LET dat == IF m.kind = "dict" THEN Load(m.lines) ELSE <<>>
        date_str == StrVal(<<make_date(p.name), 0>>)
        date_changed == DictGet(dat, "date") # date_str
        d1 == IF date_changed THEN DictSet(dat, "date", date_str) ELSE dat
        mint == ~DictHas(dat, "doi")
        d2 == IF mint THEN DictSet(d1, "doi", StrVal(make_doi(n + 1))) ELSE d1
        changed == date_changed \/ mint
    IN  IF changed
        THEN [file |-> [kind |-> "dict", lines |-> DumpSorted(d2)],
              wrote |-> TRUE, changed |-> TRUE,
              minted |-> IF mint THEN n + 1 ELSE n]
        ELSE [file |-> m, wrote |-> FALSE, changed |-> FALSE, minted |-> n]

OldDoi == <<"10.1234", 0>>
Title == <<"T", 0>>

\* the lines an author may have written for a key
LineChoices(key) ==
    IF key = "date"
    THEN [key : {"date"}, style : {"plain", "double"},
          text : {<<FilenameDate, 0>>, <<OtherDate, 0>>}]
    ELSE IF key = "doi"
    THEN {[key |-> "doi", style |-> "plain", text |-> OldDoi]}
    ELSE {[key |-> "title", style |-> "plain", text |-> Title]}

FrontKeys == {"title", "date", "doi"}

\* front matters: any of the keys, each at most once, in any order
FrontMatters ==
    UNION {{ls \in [1..Len(q) -> UNION {LineChoices(k) : k \in FrontKeys}] :
                \A i \in 1..Len(q) : ls[i] \in LineChoices(q[i])} :
           q \in {r \in SeqsUpTo(FrontKeys, Cardinality(FrontKeys)) :
                     \A i, j \in 1..Len(r) : r[i] = r[j] => i = j}}

PostName == <<FilenameDate, "post">>

Posts ==
    [name : {PostName}, fm : {TRUE}, lines : FrontMatters]
        \cup {[name |-> PostName, fm |-> FALSE, lines |-> <<>>]}

\* _metadata.yml: empty (just created), holding something that is no mapping,
\* or a mapping as yaml.dump or an author writes it
MetadataFiles ==
    {[kind |-> "empty", lines |-> <<>>], [kind |-> "other", lines |-> <<>>]}
        \cup [kind : {"dict"},
              lines : {ls \in FrontMatters :
                          /\ \A i \in 1..Len(ls) : ls[i].key # "title"
                          /\ Len(ls) = 2 => ls[1].key = "date"}]

InitMeta ==
    /\ post \in Posts
    /\ metadata_yml \in MetadataFiles
    /\ minted = 0
    /\ meta_run = NoRun
    /\ IdleAllBut({"meta"})

\* what a run found in the mapping it parsed
Found(impl, generate_doi, data, result) ==
    [impl |-> impl, generate_doi |-> generate_doi,
     had_date |-> DictHas(data, "date"),
     had_doi |-> DictHas(data, "doi"),
     date_before |-> DictGet(data, "date").v[1],
     wrote |-> result.wrote, changed |-> result.changed]

RunUpdateYamlHeader ==
    /\ LET result == update_yaml_header(post, minted)
       IN  /\ result.minted <= MaxMint
           /\ post' = result.file
           /\ minted' = result.minted
           /\ meta_run' = Found("update_yaml_header", TRUE, FrontData(post), result)
    /\ UNCHANGED metadata_yml
    /\ UNCHANGED notMeta

RunUpdatePostMetadata ==
    /\ \E generate_doi \in BOOLEAN :
        LET result == update_post_metadata(post, generate_doi, minted)
        IN  /\ result.minted <= MaxMint
            /\ post' = result.file
            /\ minted' = result.minted
            /\ meta_run' = Found("update_post_metadata", generate_doi,
                                 FrontData(post), result)
    /\ UNCHANGED metadata_yml
    /\ UNCHANGED notMeta

RunCheckMetadata ==
    /\ LET result == check_metadata(post, metadata_yml, minted)
       IN  /\ result.minted <= MaxMint
           /\ metadata_yml' = result.file
           /\ minted' = result.minted
           /\ meta_run' = Found("check_metadata", TRUE,
                  IF metadata_yml.kind = "dict" THEN Load(metadata_yml.lines)
                  ELSE <<>>, result)
    /\ UNCHANGED post
    /\ UNCHANGED notMeta

NextMeta == RunUpdateYamlHeader \/ RunUpdatePostMetadata \/ RunCheckMetadata

SpecMeta == InitMeta /\ [][NextMeta]_vars

(***************************************************************************)
(* Claims about the metadata updater                                       *)
(***************************************************************************)
HasKey(lines, key) == \E i \in 1..Len(lines) : lines[i].key = key

\* the text written for a key, "none" when the key is absent
TextOf(lines, key) ==
    IF HasKey(lines, key)
    THEN lines[CHOOSE i \in 1..Len(lines) : lines[i].key = key].text
    ELSE <<"none", 0>>

\* the file the last run worked on
Target == IF meta_run.impl = "check_metadata" THEN metadata_yml.lines ELSE post.lines

\* C6: an existing DOI is never replaced: a step leaves the doi of a file
\* that has one as it is, and a DOI is minted only by a run that found no doi key.
C6_DoiNeverReplaced ==
    [][/\ HasKey(post.lines, "doi") =>
              TextOf(post'.lines, "doi") = TextOf(post.lines, "doi")
       /\ HasKey(metadata_yml.lines, "doi") =>
              TextOf(metadata_yml'.lines, "doi") = TextOf(metadata_yml.lines, "doi")
       /\ minted' # minted =>
              /\ ~meta_run'.had_doi
              /\ minted' = minted + 1
              /\ TextOf(IF meta_run'.impl = "check_metadata"
                        THEN metadata_yml'.lines ELSE post'.lines, "doi")
                     = make_doi(minted')]_vars

\* a run rewrote the front matter of a post that had a DOI, and the DOI of
\* the author is still there
C6_Witness ==
    /\ meta_run.impl = "update_post_metadata"
    /\ meta_run.generate_doi
    /\ meta_run.had_doi
    /\ meta_run.wrote
    /\ TextOf(post.lines, "doi") = OldDoi

\* C7: a run of update_yaml_header or update_post_metadata that finds both
\* a date and a doi in the front matter does not write the file and reports no
\* change.
C7_NoOpWhenBothPresent ==
    (/\ meta_run.impl \in {"update_yaml_header", "update_post_metadata"}
     /\ meta_run.had_date
     /\ meta_run.had_doi)
        => (~meta_run.wrote /\ ~meta_run.changed)

\* C8: after a run of the updater (minting enabled) the front matter holds a
\* date equal to the date prefix of the file name and a doi.
C8_BothFieldsAfterRun ==
    (meta_run.impl # "none" /\ meta_run.generate_doi)
        => /\ TextOf(Target, "date") = <<make_date(post.name), 0>>
           /\ HasKey(Target, "doi")

\* C9: a date that is present before a run has the same value after it.
C9_ExistingDateKept ==
    (meta_run.impl # "none" /\ meta_run.had_date)
        => TextOf(Target, "date")[1] = meta_run.date_before

\* the keys of a front matter, in the order of its lines
KeysOf(lines) == [i \in 1..Len(lines) |-> lines[i].key]

\* C23: a rewrite of the front matter of a post keeps every key it had, in
\* the same relative order.
C23_KeyOrderPreserved ==
    [][post' # post =>
          SelectSeq(KeysOf(post'.lines), LAMBDA k : HasKey(post.lines, k))
              = KeysOf(post.lines)]_vars

\* a run rewrote a front matter whose keys were not in alphabetical order
\* and appended the doi
C23_Witness ==
    /\ meta_run.impl = "update_yaml_header"
    /\ meta_run.wrote
    /\ meta_run.had_date
    /\ KeysOf(post.lines) = <<"title", "date", "doi">>

====
